---- MODULE Spec2Model ----
(***************************************************************************)
(* File Merge (ExamplePlugins/folder_merge/file_merge.py) as a state       *)
(* machine: the Tk main thread (buttons, slider, after() timers, the       *)
(* modal similarity dialog) and the worker thread (_run_merge, _run_dedup, *)
(* _run_remove_empty) over a small file system.                            *)
(*                                                                         *)
(* A name is a sequence of one-character strings, a path is a sequence of  *)
(* names (os.sep joins them), a file's content is a sequence of bytes.     *)
(* The file system is the pair (dirs, files): dirs is the set of directory *)
(* paths, files maps each file path to its content.                        *)
(***************************************************************************)
EXTENDS Integers, Sequences, FiniteSets, TLC

(***************************************************************************)
(* Bounds of the model (not program constants).                            *)
(***************************************************************************)
\* operations (merge, dedup, reclaim) the operator starts in one behaviour
MaxRuns == 2
\* I/O failures the environment injects in one behaviour
MaxFaults == 1
\* slider motions in one behaviour
MaxSliderMoves == 1

(***************************************************************************)
(* Program constants.                                                      *)
(***************************************************************************)
CHUNK_SIZE == 65536

merge_log_txt == <<"m","e","r","g","e","_","l","o","g",".","t","x","t">>

DS_Store == <<".","D","S","_","S","t","o","r","e">>

Thumbs_db == <<"T","h","u","m","b","s",".","d","b">>

desktop_ini == <<"d","e","s","k","t","o","p",".","i","n","i">>

\* a set of ignorable names that also holds an ordinary file name
ignorable_and_ordinary == {DS_Store, Thumbs_db, desktop_ini, <<"r", ".", "t">>}

_IGNORABLE_FILES == {DS_Store, Thumbs_db, desktop_ini}

_Quelle == <<"_","Q","u","e","l","l","e">>

Digit == {"0","1","2","3","4","5","6","7","8","9"}

(***************************************************************************)
(* Sequence helpers.                                                       *)
(***************************************************************************)
Last(s) == s[Len(s)]

Front(s) == SubSeq(s, 1, Len(s) - 1)

IsPrefix(p, s) == Len(p) <= Len(s) /\ SubSeq(s, 1, Len(p)) = p

Max(S) == CHOOSE x \in S : \A y \in S : y <= x

Min(S) == CHOOSE x \in S : \A y \in S : x <= y

Range(s) == {s[k] : k \in DOMAIN s}

\* str.strip(): leading and trailing blanks removed
Strip(s) ==
  LET idx == {k \in DOMAIN s : s[k] # " "}
  IN IF idx = {} THEN <<>> ELSE SubSeq(s, Min(idx), Max(idx))

(***************************************************************************)
(* name_similarity: difflib.SequenceMatcher(None, a, b).ratio() as the     *)
(* fraction <<2*M, T>>; no element is junk (names are far shorter than the *)
(* 200 elements at which autojunk starts).                                 *)
(***************************************************************************)
\* length of the common run of a from i and b from j, inside the windows
RECURSIVE RunLen(_, _, _, _, _, _)
RunLen(a, b, i, j, ahi, bhi) ==
  IF i <= ahi /\ j <= bhi /\ a[i] = b[j]
  THEN 1 + RunLen(a, b, i + 1, j + 1, ahi, bhi)
  ELSE 0

\* SequenceMatcher.find_longest_match on a[alo..ahi], b[blo..bhi] (1-based,
\* inclusive): the longest block, earliest in a, then earliest in b
FindLongestMatch(a, b, alo, ahi, blo, bhi) ==
  LET cand == {<<i, j>> \in (alo..ahi) \X (blo..bhi) : a[i] = b[j]}
  IN IF cand = {} THEN [i |-> alo, j |-> blo, size |-> 0]
     ELSE LET best == Max({RunLen(a, b, c[1], c[2], ahi, bhi) : c \in cand})
              top == {c \in cand : RunLen(a, b, c[1], c[2], ahi, bhi) = best}
              bi == Min({c[1] : c \in top})
              bj == Min({c[2] : c \in {d \in top : d[1] = bi}})
          IN [i |-> bi, j |-> bj, size |-> best]

\* SequenceMatcher.get_matching_blocks: the total size of the blocks
RECURSIVE MatchCount(_, _, _, _, _, _)
MatchCount(a, b, alo, ahi, blo, bhi) ==
  IF alo > ahi \/ blo > bhi THEN 0
  ELSE LET m == FindLongestMatch(a, b, alo, ahi, blo, bhi)
       IN IF m.size = 0 THEN 0
          ELSE m.size
               + MatchCount(a, b, alo, m.i - 1, blo, m.j - 1)
               + MatchCount(a, b, m.i + m.size, ahi, m.j + m.size, bhi)

\* a ratio is the fraction <<num, den>>, den > 0
RatioGE(r, s) == r[1] * s[2] >= s[1] * r[2]

RatioGT(r, s) == r[1] * s[2] > s[1] * r[2]

One == <<1, 1>>

Zero == <<0, 1>>

\* a percentage iv as the float iv / 100.0
Percent(iv) == <<iv, 100>>

\* the ratio of the matcher without the two tests for empty names
name_similarity_unguarded(name_a, name_b) ==
  <<2 * MatchCount(name_a, name_b, 1, Len(name_a), 1, Len(name_b)),
    Len(name_a) + Len(name_b)>>

name_similarity(name_a, name_b) ==
  IF name_a = <<>> /\ name_b = <<>> THEN One
  ELSE IF name_a = <<>> \/ name_b = <<>> THEN Zero
  ELSE <<2 * MatchCount(name_a, name_b, 1, Len(name_a), 1, Len(name_b)),
         Len(name_a) + Len(name_b)>>

(***************************************************************************)
(* files_identical: size check, then lock-step chunks of CHUNK_SIZE.       *)
(* ioerr: the environment raises OSError while sizing or reading.          *)
(***************************************************************************)
Chunk(c, pos) ==
  SubSeq(c, pos + 1, IF pos + CHUNK_SIZE < Len(c) THEN pos + CHUNK_SIZE ELSE Len(c))

RECURSIVE CompareChunks(_, _, _)
CompareChunks(ca, cb, pos) ==
  LET chunk_a == Chunk(ca, pos)
      chunk_b == Chunk(cb, pos)
  IN IF chunk_a # chunk_b THEN FALSE
     ELSE IF chunk_a = <<>> THEN TRUE
     ELSE CompareChunks(ca, cb, pos + CHUNK_SIZE)

\* a comparison without the size check that ends with the first file
files_identical_prefix(ca, cb, ioerr) ==
  ~ioerr /\ Len(ca) <= Len(cb) /\ SubSeq(cb, 1, Len(ca)) = ca

\* a comparison that takes an unreadable file for identical
files_identical_unguarded(ca, cb, ioerr) == ca = cb

\* a comparison that stops after the size check
files_identical_by_size(ca, cb, ioerr) == ~ioerr /\ Len(ca) = Len(cb)

\* the comparison of two regular files with contents ca and cb
files_identical(ca, cb, ioerr) ==
  IF ioerr THEN FALSE
  ELSE IF Len(ca) # Len(cb) THEN FALSE
  ELSE CompareChunks(ca, cb, 0)

(***************************************************************************)
(* Names: os.path.splitext, the numbered variant, the dedup pattern.       *)
(***************************************************************************)
\* os.path.splitext on a file name: the extension starts at the last dot,
\* unless only dots precede it
splitext(fname) ==
  LET dots == {k \in DOMAIN fname : fname[k] = "."}
  IN IF dots = {} THEN <<fname, <<>>>>
     ELSE LET d == Max(dots)
          IN IF \E k \in 1..(d - 1) : fname[k] # "."
             THEN <<SubSeq(fname, 1, d - 1), SubSeq(fname, d, Len(fname))>>
             ELSE <<fname, <<>>>>

DigitChar(n) ==
  CASE n = 0 -> "0" [] n = 1 -> "1" [] n = 2 -> "2" [] n = 3 -> "3" [] n = 4 -> "4"
    [] n = 5 -> "5" [] n = 6 -> "6" [] n = 7 -> "7" [] n = 8 -> "8" [] n = 9 -> "9"

\* f"{counter}"
RECURSIVE Decimal(_)
Decimal(n) == IF n < 10 THEN <<DigitChar(n)>> ELSE Append(Decimal(n \div 10), DigitChar(n % 10))

\* f"{stem}_{counter}{ext}"
NumberedName(fname, counter) ==
  LET se == splitext(fname) IN se[1] \o <<"_">> \o Decimal(counter) \o se[2]

\* _DEDUP_RE = ^(.+)_(\d+)(\.[^.]+)$ : <<matched, group(1) + group(3)>>
DedupMatch(fname) ==
  LET dots == {k \in DOMAIN fname : fname[k] = "."}
      d == IF dots = {} THEN 0 ELSE Max(dots)
      unders == {k \in 1..(d - 1) : fname[k] = "_"}
      u == IF unders = {} THEN 0 ELSE Max(unders)
      ok == /\ d > 0 /\ d < Len(fname)
            /\ u > 1 /\ u + 1 < d
            /\ \A k \in (u + 1)..(d - 1) : fname[k] \in Digit
  IN IF ok THEN <<TRUE, SubSeq(fname, 1, u - 1) \o SubSeq(fname, d, Len(fname))>>
     ELSE <<FALSE, <<>>>>

(***************************************************************************)
(* The file system: [dirs: set of paths, files: path -> content].          *)
(***************************************************************************)
Parent(p) == Front(p)

Basename(p) == Last(p)

IsDir(f, p) == p \in f.dirs

IsFile(f, p) == p \in DOMAIN f.files

PathExists(f, p) == IsDir(f, p) \/ IsFile(f, p)

AllPaths(f) == f.dirs \cup DOMAIN f.files

\* os.listdir(d): the names of the entries of d
Listdir(f, d) == {Basename(p) : p \in {q \in AllPaths(f) : Len(q) = Len(d) + 1 /\ Parent(q) = d}}

\* the subdirectories of d
Subdirs(f, d) == {q \in f.dirs : Len(q) = Len(d) + 1 /\ Parent(q) = d}

\* the files directly in d
FilesIn(f, d) == {q \in DOMAIN f.files : Len(q) = Len(d) + 1 /\ Parent(q) = d}

Restrict(fn, S) == [x \in S |-> fn[x]]

\* os.remove(p)
Remove(f, p) == [f EXCEPT !.files = Restrict(f.files, DOMAIN f.files \ {p})]

\* shutil.move(src, dst), dst absent: a rename
Move(f, src, dst) ==
  [f EXCEPT !.files = (dst :> f.files[src]) @@ Restrict(f.files, DOMAIN f.files \ {src})]

\* os.makedirs(p, exist_ok=True) can succeed: no file is in the way
CanMakedirs(f, p) == \A k \in 1..Len(p) : ~IsFile(f, SubSeq(p, 1, k))

Makedirs(f, p) == [f EXCEPT !.dirs = f.dirs \cup {SubSeq(p, 1, k) : k \in 1..Len(p)}]

\* open(p, "w").write(text): creates or truncates the file
WriteFile(f, p, text) ==
  [f EXCEPT !.files = (p :> text) @@ Restrict(f.files, DOMAIN f.files \ {p})]

(***************************************************************************)
(* Reclamation helpers.                                                    *)
(***************************************************************************)
\* a test that takes only a directory without any entry for reclaimable
is_dir_empty(f, dirpath) == IsDir(f, dirpath) /\ Listdir(f, dirpath) = {}

\* _is_dir_only_ignorable: every entry name is an ignorable one
_is_dir_only_ignorable(f, dirpath) ==
  IsDir(f, dirpath) /\ \A entry \in Listdir(f, dirpath) : entry \in _IGNORABLE_FILES

\* the ignorable files os.remove deletes in _purge_ignorable_and_rmdir
PurgedFiles(f, dirpath) ==
  {p \in FilesIn(f, dirpath) : Basename(p) \in _IGNORABLE_FILES}

\* _purge_ignorable_and_rmdir: [fs, ok]; os.rmdir raises OSError when the
\* directory is not empty after the purge or when the environment fails it
_purge_ignorable_and_rmdir(f, dirpath, rmfail) ==
  LET f1 == [f EXCEPT !.files = Restrict(f.files, DOMAIN f.files \ PurgedFiles(f, dirpath))]
      ok == ~rmfail /\ Listdir(f1, dirpath) = {}
  IN [fs |-> IF ok THEN [f1 EXCEPT !.dirs = f1.dirs \ {dirpath}] ELSE f1, ok |-> ok]

\* an upward walk that does not stop at the source root
RECURSIVE remove_upward_through_root(_, _, _, _)
remove_upward_through_root(f, dirpath, source_root, rmfail) ==
  IF dirpath = <<>> THEN f
  ELSE IF ~IsDir(f, dirpath) THEN f
  ELSE IF Basename(dirpath) = _Quelle THEN f
  ELSE IF ~_is_dir_only_ignorable(f, dirpath) THEN f
  ELSE LET r == _purge_ignorable_and_rmdir(f, dirpath, rmfail)
       IN IF ~r.ok THEN r.fs
          ELSE remove_upward_through_root(r.fs, Parent(dirpath), source_root, rmfail)

\* _remove_empty_dirs_upward(dirpath, source_root)
RECURSIVE _remove_empty_dirs_upward(_, _, _, _)
_remove_empty_dirs_upward(f, dirpath, source_root, rmfail) ==
  IF dirpath = <<>> \/ dirpath = source_root THEN f
  ELSE IF ~IsDir(f, dirpath) THEN f
  ELSE IF Basename(dirpath) = _Quelle THEN f
  ELSE IF ~_is_dir_only_ignorable(f, dirpath) THEN f
  ELSE LET r == _purge_ignorable_and_rmdir(f, dirpath, rmfail)
       IN IF ~r.ok THEN r.fs
          ELSE _remove_empty_dirs_upward(r.fs, Parent(dirpath), source_root, rmfail)

\* the directories of one level of a bottom-up walk below (or at) root
LevelDirs(f, root, depth) == {d \in f.dirs : IsPrefix(root, d) /\ Len(d) = depth}

\* one level of a bottom-up round: every only-ignorable directory of the
\* level is purged and removed; protect: the directories the loop skips
SweepLevel(f, cands, rmfail) ==
  LET del == {d \in cands : _is_dir_only_ignorable(f, d)}
      purged == UNION {PurgedFiles(f, d) : d \in del}
      f1 == [f EXCEPT !.files = Restrict(f.files, DOMAIN f.files \ purged)]
      gone == {d \in del : ~rmfail /\ Listdir(f1, d) = {}}
  IN [fs |-> [f1 EXCEPT !.dirs = f1.dirs \ gone],
      removed |-> Cardinality(gone),
      errors |-> Cardinality(del \ gone)]

MaxDepth(f) == Max({Len(d) : d \in f.dirs} \cup {0})

\* one round of step 6 over one source: os.walk(src, topdown=False), the
\* source root included, '_Quelle' directories skipped
RECURSIVE MergeSweepRound(_, _, _, _)
MergeSweepRound(f, src, depth, rmfail) ==
  IF depth < Len(src) THEN [fs |-> f, removed |-> 0]
  ELSE LET cands == {d \in LevelDirs(f, src, depth) : Basename(d) # _Quelle}
           lv == SweepLevel(f, cands, rmfail)
           rest == MergeSweepRound(lv.fs, src, depth - 1, rmfail)
       IN [fs |-> rest.fs, removed |-> lv.removed + rest.removed]

\* step 6 for one source: rounds until a round removes nothing
RECURSIVE MergeSweepSource(_, _, _)
MergeSweepSource(f, src, rmfail) ==
  LET r == MergeSweepRound(f, src, MaxDepth(f), rmfail)
  IN IF r.removed = 0 THEN r
     ELSE LET more == MergeSweepSource(r.fs, src, rmfail)
          IN [fs |-> more.fs, removed |-> r.removed + more.removed]

\* step 6: every source in turn
RECURSIVE MergeSweep(_, _, _, _)
MergeSweep(f, sources, k, rmfail) ==
  IF k > Len(sources) THEN [fs |-> f, removed |-> 0]
  ELSE IF ~IsDir(f, sources[k]) THEN MergeSweep(f, sources, k + 1, rmfail)
  ELSE LET r == MergeSweepSource(f, sources[k], rmfail)
           rest == MergeSweep(r.fs, sources, k + 1, rmfail)
       IN [fs |-> rest.fs, removed |-> r.removed + rest.removed]

\* a round that counts a directory whose removal failed as deleted
RECURSIVE round_counting_failed(_, _, _, _)
round_counting_failed(f, target, depth, rmfail) ==
  IF depth <= Len(target) THEN [fs |-> f, removed |-> 0, errors |-> 0]
  ELSE LET lv == SweepLevel(f, LevelDirs(f, target, depth), rmfail)
           rest == round_counting_failed(lv.fs, target, depth - 1, rmfail)
       IN [fs |-> rest.fs, removed |-> lv.removed + lv.errors + rest.removed,
           errors |-> lv.errors + rest.errors]

\* one round of _run_remove_empty: the directories strictly below target,
\* collected bottom-up, then checked and removed one by one
RECURSIVE RemoveEmptyRound(_, _, _, _)
RemoveEmptyRound(f, target, depth, rmfail) ==
  IF depth <= Len(target) THEN [fs |-> f, removed |-> 0, errors |-> 0]
  ELSE LET lv == SweepLevel(f, LevelDirs(f, target, depth), rmfail)
           rest == RemoveEmptyRound(lv.fs, target, depth - 1, rmfail)
       IN [fs |-> rest.fs, removed |-> lv.removed + rest.removed,
           errors |-> lv.errors + rest.errors]

(***************************************************************************)
(* _merge_single_file.  fault names the operation the environment fails    *)
(* while this file is placed: "compare" (the source cannot be read),       *)
(* "move", "remove"; "none" otherwise.  The result is                      *)
(*   [fs, outcome: "moved" | "deleted_dup" | "error", dest, ioerr]         *)
(* where dest is the path the source went to or was found identical to.    *)
(***************************************************************************)
ContentOf(f, p) == IF IsFile(f, p) THEN f.files[p] ELSE <<>>

\* files_identical on two paths: a missing path or a directory raises OSError
CompareIoErr(f, a, b, fault) == fault = "compare" \/ ~IsFile(f, a) \/ ~IsFile(f, b)

FilesIdenticalAt(f, a, b, fault) ==
  files_identical(ContentOf(f, a), ContentOf(f, b), CompareIoErr(f, a, b, fault))

\* shutil.move(src, dst) with dst absent
MoveSource(f, src_file, dst, fault) ==
  IF fault = "move" \/ ~IsFile(f, src_file) \/ ~IsDir(f, Parent(dst))
  THEN [fs |-> f, outcome |-> "error", dest |-> dst, ioerr |-> FALSE]
  ELSE [fs |-> Move(f, src_file, dst), outcome |-> "moved", dest |-> dst, ioerr |-> FALSE]

\* os.remove(src_file) after a comparison with 'against' returned true
RemoveSource(f, src_file, against, fault) ==
  IF fault = "remove" \/ ~IsFile(f, src_file)
  THEN [fs |-> f, outcome |-> "error", dest |-> against, ioerr |-> FALSE]
  ELSE [fs |-> Remove(f, src_file), outcome |-> "deleted_dup", dest |-> against,
        ioerr |-> CompareIoErr(f, src_file, against, fault)]

\* a case C that takes the first numbered name whether it is free or not
probe_overwriting(f, src_file, dest_dir, counter, fault) ==
  MoveSource(f, src_file, Append(dest_dir, NumberedName(Basename(src_file), counter)), fault)

\* case C: the loop over stem_1.ext, stem_2.ext, ...
RECURSIVE ProbeNumbered(_, _, _, _, _)
ProbeNumbered(f, src_file, dest_dir, counter, fault) ==
  LET new_dest == Append(dest_dir, NumberedName(Basename(src_file), counter))
  IN IF ~PathExists(f, new_dest) THEN MoveSource(f, src_file, new_dest, fault)
     ELSE IF FilesIdenticalAt(f, src_file, new_dest, fault)
          THEN RemoveSource(f, src_file, new_dest, fault)
     ELSE ProbeNumbered(f, src_file, dest_dir, counter + 1, fault)

\* a placement that never compares with the same-named destination
merge_without_compare(f, src_file, dest_dir, fault) ==
  LET dest_file == Append(dest_dir, Basename(src_file))
  IN IF ~PathExists(f, dest_file) /\ CanMakedirs(f, dest_dir)
     THEN MoveSource(Makedirs(f, dest_dir), src_file, dest_file, fault)
     ELSE ProbeNumbered(f, src_file, dest_dir, 1, fault)

_merge_single_file(f, src_file, dest_dir, fault) ==
  LET dest_file == Append(dest_dir, Basename(src_file))
  IN IF ~PathExists(f, dest_file)
     THEN IF ~CanMakedirs(f, dest_dir)
          THEN [fs |-> f, outcome |-> "error", dest |-> dest_file, ioerr |-> FALSE]
          ELSE MoveSource(Makedirs(f, dest_dir), src_file, dest_file, fault)
     ELSE IF FilesIdenticalAt(f, src_file, dest_file, fault)
          THEN RemoveSource(f, src_file, dest_file, fault)
     ELSE ProbeNumbered(f, src_file, dest_dir, 1, fault)

(***************************************************************************)
(* Step 2 of _run_merge: the file list.  os.walk yields a directory's      *)
(* files, then its subdirectories depth first; the order of the entries of *)
(* one directory is the file system's (any order).                         *)
(***************************************************************************)
SeqsOf(S) == {q \in [1..Cardinality(S) -> S] : \A i, j \in DOMAIN q : i # j => q[i] # q[j]}

RECURSIVE WalkFiles(_, _, _), WalkSubtrees(_, _, _, _)
\* the orders in which os.walk(d) yields the files below d; with skip the
\* files directly in a '_Quelle' directory are left out (line 656)
WalkFiles(f, d, skip) ==
  LET here == IF skip /\ Basename(d) = _Quelle THEN {} ELSE FilesIn(f, d)
  IN {fo \o rest : fo \in SeqsOf(here),
                   rest \in UNION {WalkSubtrees(f, so, 1, skip) : so \in SeqsOf(Subdirs(f, d))}}

WalkSubtrees(f, so, k, skip) ==
  IF k > Len(so) THEN {<<>>}
  ELSE {a \o b : a \in WalkFiles(f, so[k], skip), b \in WalkSubtrees(f, so, k + 1, skip)}

\* os.path.relpath(p, src)
Relpath(p, src) == SubSeq(p, Len(src) + 1, Len(p))

Entry(src, src_file) ==
  [source_root |-> src, rel_path |-> Relpath(src_file, src), src_file |-> src_file]

EntriesOf(src, order) == [k \in DOMAIN order |-> Entry(src, order[k])]

\* the unsorted file lists of sources[k..]
RECURSIVE FileLists(_, _, _)
FileLists(f, sources, k) ==
  IF k > Len(sources) THEN {<<>>}
  ELSE IF ~IsDir(f, sources[k]) THEN FileLists(f, sources, k + 1)
  ELSE {EntriesOf(sources[k], a) \o b :
          a \in WalkFiles(f, sources[k], TRUE), b \in FileLists(f, sources, k + 1)}

\* file_list.sort(key=lambda x: x[1].count(os.sep)): stable, flattest first
RECURSIVE SortByDepth(_, _)
SortByDepth(list, depth) ==
  IF \A k \in DOMAIN list : Len(list[k].rel_path) - 1 < depth THEN <<>>
  ELSE LET AtDepth(e) == Len(e.rel_path) - 1 = depth
       IN SelectSeq(list, AtDepth) \o SortByDepth(list, depth + 1)

(***************************************************************************)
(* _find_best_matching_folder and the keys of _resolve_cache.              *)
(***************************************************************************)
\* os.sep.join(path): the string of a relative path
RECURSIVE Join(_)
Join(path) ==
  IF path = <<>> THEN <<>>
  ELSE IF Len(path) = 1 THEN path[1]
  ELSE Join(Front(path)) \o <<"/">> \o Last(path)

\* str.strip(os.sep)
StripSep(s) ==
  LET idx == {k \in DOMAIN s : s[k] # "/"}
  IN IF idx = {} THEN <<>> ELSE SubSeq(s, Min(idx), Max(idx))

\* norm = (relative_dir_path or "").strip().strip(os.sep)
Norm(rel_dir) == StripSep(Strip(Join(rel_dir)))

\* the results (exact_path, best_similar_path, ratio) the scan of
\* parent_dir can return; <<>> stands for None.  Of several entries with
\* the best ratio the first one listed wins: any of them.
_find_best_matching_folder(f, parent_dir, wanted_name) ==
  LET subs == Subdirs(f, parent_dir)
      R(sub_path) == name_similarity(Basename(sub_path), wanted_name)
      exact == {sp \in subs : RatioGE(R(sp), One)}
      scored == {sp \in subs : RatioGT(R(sp), Zero)}
      best == {sp \in scored : \A o \in scored : RatioGE(R(sp), R(o))}
  IN IF ~IsDir(f, parent_dir) \/ (exact = {} /\ best = {})
     THEN {[exact_path |-> <<>>, similar_path |-> <<>>, ratio |-> Zero]}
     ELSE IF exact # {}
     THEN {[exact_path |-> sp, similar_path |-> sp, ratio |-> One] : sp \in exact}
     ELSE {[exact_path |-> <<>>, similar_path |-> sp, ratio |-> R(sp)] : sp \in best}

\* a test that asks for every similar match, whatever the threshold
needs_decision_any_similar(similar_path, ratio, threshold) ==
  similar_path # <<>> /\ RatioGT(One, ratio)

\* the test of line 495: a similar, not exact, match at or above the threshold
NeedsDecision(similar_path, ratio, threshold) ==
  similar_path # <<>> /\ RatioGE(ratio, Percent(threshold)) /\ RatioGT(One, ratio)

\* os.path.realpath(p) as a string: "/" for the root of the file system,
\* "/a/b" for the path <<a, b>> (the selections hold no symbolic links)
Realpath(p) == IF p = <<>> THEN <<"/">> ELSE <<"/">> \o Join(p)

\* _is_subpath(child, parent):
\* child == parent or child.startswith(parent + os.sep)
_is_subpath(child, parent) ==
  \/ Realpath(child) = Realpath(parent)
  \/ IsPrefix(Realpath(parent) \o <<"/">>, Realpath(child))

(***************************************************************************)
(* State.                                                                  *)
(***************************************************************************)
VARIABLES
  fs,                    \* the file system
  target_var,            \* the chosen target directory
  source_folders,        \* the chosen source directories, in list order
  empty_dir_var,         \* the directory chosen for "Leere Ordner loeschen"
  SIMILARITY_THRESHOLD,  \* the module global, as the slider's percentage
  is_running,
  buttons,               \* [start, dedup, empty]: TRUE when the button is enabled
  merge_request_queue,
  merge_response_queue,
  after_polls,           \* pending after(150, _poll_merge_dialog) timers
  after_done,            \* pending after(0, _done) callbacks, in order
  dlg,                   \* the open modal dialogs (wait_window nests)
  thread,                \* the worker thread
  resolve_cache,         \* self._resolve_cache: [none, map]
  live,                  \* worker threads that have not returned
  runs,                  \* operations started so far
  faults,                \* I/O failures injected so far
  slider_moves,          \* slider motions so far
  hist,                  \* history of the current merge run (observation only)
  dr                     \* the DuplicateRemover window and its scan thread

vars == <<fs, target_var, source_folders, empty_dir_var, SIMILARITY_THRESHOLD,
          is_running, buttons, merge_request_queue, merge_response_queue,
          after_polls, after_done, dlg, thread, resolve_cache, live, runs,
          faults, slider_moves, hist, dr>>

\* counters that start with a file already counted
StaleStats == [moved |-> 1, deleted_dup |-> 0, errors |-> 0]

\* line 686: stats = {"moved": 0, "deleted_dup": 0, "errors": 0}
ZeroStats == [moved |-> 0, deleted_dup |-> 0, errors |-> 0]

IdleThread ==
  [op |-> "none", pc |-> "idle", target |-> <<>>, sources |-> <<>>,
   file_list |-> <<>>, i |-> 0, seg |-> 0, current |-> <<>>,
   similar_path |-> <<>>, stats |-> ZeroStats, aborted |-> FALSE,
   candidates |-> <<>>, round_nr |-> 0, deleted |-> 0, kept |-> 0, errors |-> 0]

\* the value of target_var or empty_dir_var before a directory is chosen:
\* the empty string (the path <<>> is the root of the file system)
NotChosen == <<<<>>>>

NoCache == [none |-> TRUE, map |-> <<>>]

EmptyCache == [none |-> FALSE, map |-> <<>>]

\* the text of merge_log.txt: "=== File Merge Log ===" and what follows
LogText == <<61, 61, 61>>

\* the tree of a summary that does not exist
NoTree == [dirs |-> {}, files |-> <<>>]

\* no reclamation has returned
NoReclaim == [ended |-> FALSE, root |-> <<>>, deleted |-> 0, errors |-> 0, fs |-> NoTree]

\* no duplicate sweep has returned
NoSweep == [ended |-> FALSE, root |-> <<>>, deleted |-> 0, kept |-> 0, errors |-> 0,
            faulty |-> FALSE, fs0 |-> NoTree, fs |-> NoTree]

\* phase: "none" | "running" | "ended" (the merge run);  files0, thr0: the
\* files and the threshold when the run was started;  decided: the segments
\* settled by a scan that found no exact match;  deleted: the sources removed
\* as duplicates;  resolved: the (rel_dir, dest_dir) pairs files were placed
\* with;  outcomes: the outcome of each file handled;  swept: step 6 ran;
\* req_id: the number of requests put so far;  failed: the sources whose
\* entry ended in the except clause, with whether the file was there then;
\* answers: the responses the worker has taken, with the segment's key and
\* the candidate directory they were about;  reclaim: the summary of the
\* reclamation that returned last (line 991) with the tree it left;
\* prev_reclaim: the same for the reclamation before the current one;
\* sweep, prev_sweep: the same for the duplicate sweeps (line 890);
\* sweep_fs0: the tree the current sweep started on;  sweep_faulty: the
\* environment failed a comparison or a removal of the current sweep;
\* prev_stats: the counters the merge run before the current one ended with
NoHist ==
  [phase |-> "none", files0 |-> <<>>, thr0 |-> 0, decided |-> <<>>, deleted |-> {},
   resolved |-> {}, outcomes |-> <<>>, swept |-> FALSE, req_id |-> 0, failed |-> {},
   answers |-> <<>>, reclaim |-> NoReclaim, prev_reclaim |-> NoReclaim,
   sweep |-> NoSweep, prev_sweep |-> NoSweep, sweep_fs0 |-> NoTree, sweep_faulty |-> FALSE,
   prev_stats |-> ZeroStats]

\* the slider positions the operator uses
SliderValues == {0, 60, 100}

FaultsLeft == faults < MaxFaults

(***************************************************************************)
(* The initial file systems and selections: the state after the operator   *)
(* has chosen the target, the sources and the slider position.             *)
(***************************************************************************)
nT == <<"T">>

nA == <<"A">>

nB == <<"B">>

n_d == <<"d">>

n_d_sim == <<"d", "_">>

n_d_blank == <<"d", " ">>

n_e == <<"e">>

n_e_sim == <<"e", "_">>

r_t == <<"r", ".", "t">>

r_1_t == <<"r", "_", "1", ".", "t">>

r_1_1_t == <<"r", "_", "1", "_", "1", ".", "t">>

r_2_t == <<"r", "_", "2", ".", "t">>

s_1_t == <<"s", "_", "1", ".", "t">>

s_t == <<"s", ".", "t">>

c1 == <<1>>

c2 == <<2>>

c3 == <<3>>

c4 == <<4>>

\* an empty file
c0 == <<>>

\* a file that starts with the bytes of c1
c11 == <<1, 1>>

\* two sources with the same relative file, similar folders in the target
ScSimilar(cB) ==
  [fs |-> [dirs |-> {<<nT>>, <<nT, n_d_sim>>, <<nT, n_e_sim>>, <<nA>>, <<nA, n_d>>,
                     <<nB>>, <<nB, n_d>>, <<nB, n_e>>},
           files |-> (<<nA, n_d, r_t>> :> c1) @@ (<<nB, n_d, r_t>> :> cB)
                     @@ (<<nB, n_e, s_t>> :> c1)],
   target |-> <<nT>>, sources |-> <<<<nA>>, <<nB>>>>, empty_dir |-> <<nT>>]

\* a name collision with numbered variants in the target, an OS metadata
\* file and a file named like the run log in the source
ScVariants(cV) ==
  [fs |-> [dirs |-> {<<nT>>, <<nT, n_d>>, <<nA>>, <<nA, n_d>>},
           files |-> (<<nT, n_d, r_t>> :> c2) @@ (<<nT, n_d, r_1_t>> :> cV)
                     @@ (<<nA, merge_log_txt>> :> c3) @@ (<<nA, n_d, r_t>> :> c1)
                     @@ (<<nA, n_d, DS_Store>> :> c4)],
   target |-> <<nT>>, sources |-> <<<<nA>>>>, empty_dir |-> <<nA>>]

\* directory names that differ only in a trailing blank
ScBlank ==
  [fs |-> [dirs |-> {<<nT>>, <<nT, n_d>>, <<nA>>, <<nA, n_d_blank>>, <<nB>>, <<nB, n_d>>,
                     <<nB, n_d_blank>>},
           files |-> (<<nA, n_d_blank, r_t>> :> c1) @@ (<<nB, n_d, r_t>> :> c2)
                     @@ (<<nB, n_d_blank, s_t>> :> c1)],
   target |-> <<nT>>, sources |-> <<<<nA>>, <<nB>>>>, empty_dir |-> <<nT>>]

\* a source chosen together with one of its own subdirectories
ScNested ==
  [fs |-> [dirs |-> {<<nT>>, <<nT, n_d_sim>>, <<nA>>, <<nA, n_d>>},
           files |-> (<<nA, n_d, r_t>> :> c1)],
   target |-> <<nT>>, sources |-> <<<<nA>>, <<nA, n_d>>>>, empty_dir |-> <<nT>>]

\* the root of the file system (of a drive) chosen as the target, a
\* directory on it as the source
ScRoot ==
  [fs |-> [dirs |-> {<<>>, <<nA>>, <<nA, n_d>>},
           files |-> (<<nA, n_d, r_t>> :> c1)],
   target |-> <<>>, sources |-> <<<<nA>>>>, empty_dir |-> <<nA>>]

\* a target whose only directory shares no character with the wanted name
ScUnrelated ==
  [fs |-> [dirs |-> {<<nT>>, <<nT, n_e_sim>>, <<nA>>, <<nA, n_d>>},
           files |-> (<<nA, n_d, r_t>> :> c1)],
   target |-> <<nT>>, sources |-> <<<<nA>>>>, empty_dir |-> <<nT>>]

\* a source chosen inside the target
ScInside ==
  [fs |-> [dirs |-> {<<nT>>, <<nT, n_d>>},
           files |-> (<<nT, n_d, r_t>> :> c1)],
   target |-> <<nT>>, sources |-> <<<<nT, n_d>>>>, empty_dir |-> <<nT>>]

\* a source with protected staging directories: one holding a file, a
\* subdirectory with a file and an empty subdirectory, and one with an OS
\* metadata file only that is the only entry of its parent
ScStaging ==
  [fs |-> [dirs |-> {<<nT>>, <<nA>>, <<nA, _Quelle>>, <<nA, _Quelle, n_d>>,
                     <<nA, _Quelle, n_e>>, <<nA, n_e>>, <<nA, n_e, _Quelle>>},
           files |-> (<<nA, _Quelle, n_d, r_t>> :> c1) @@ (<<nA, _Quelle, s_t>> :> c2)
                     @@ (<<nA, n_e, _Quelle, DS_Store>> :> c4)],
   target |-> <<nT>>, sources |-> <<<<nA>>>>, empty_dir |-> <<nA>>]

\* a target with chained numbered names of one content and, in a
\* subdirectory, a numbered file without a base and two empty files; a
\* source with one file two directories deep
ScChain ==
  [fs |-> [dirs |-> {<<nT>>, <<nT, n_e>>, <<nA>>, <<nA, n_d>>, <<nA, n_d, n_e>>},
           files |-> (<<nT, r_t>> :> c1) @@ (<<nT, r_1_t>> :> c1) @@ (<<nT, r_1_1_t>> :> c1)
                     @@ (<<nT, n_e, r_2_t>> :> c11) @@ (<<nT, n_e, s_t>> :> c0)
                     @@ (<<nT, n_e, s_1_t>> :> c0) @@ (<<nA, n_d, n_e, r_t>> :> c2)],
   target |-> <<nT>>, sources |-> <<<<nA>>>>, empty_dir |-> <<nA>>]

\* a pair of names the matcher scores differently in the two directions:
\* 'e_d' scanned for the wanted 'ded' scores 2/3, 'ded' against 'e_d' 1/3
ScAsym ==
  LET n_ded == <<"d", "e", "d">>
      n_e_d == <<"e", "_", "d">>
  IN [fs |-> [dirs |-> {<<nT>>, <<nT, n_e_d>>, <<nA>>, <<nA, n_ded>>},
              files |-> (<<nA, n_ded, r_t>> :> c1)],
      target |-> <<nT>>, sources |-> <<<<nA>>>>, empty_dir |-> <<nT>>]

(***************************************************************************)
(* duplicate_remover.py: the DuplicateRemover window.                      *)
(***************************************************************************)
\* self.primary_folder = None: no folder selected
None == <<<<>>>>

\* get_file_hash returned None
NoHash == <<>>

\* the scan thread before it is started.  Dual scan: primary_files,
\* primary_hashes, files (the secondary files), idx.  Single scan: files
\* (all_files), idx, hash_map (the groups in the order their hash was first
\* seen), groups (duplicate_groups), g (groups begun), keep_file, to_check,
\* j (members of to_check handled).  deleted, kept: the files removed and
\* the files chosen as keep_file by the scan started last (observation)
NoScan ==
  [pc |-> "idle", primary_files |-> <<>>, primary_hashes |-> {}, files |-> <<>>,
   idx |-> 0, hash_map |-> <<>>, groups |-> <<>>, g |-> 0, keep_file |-> <<>>,
   to_check |-> <<>>, j |-> 0, deleted |-> {}, kept |-> {}]

\* the statistics as start_dual_scan resets them
NewStats ==
  [primary_files |-> 0, secondary_files |-> 0, files_deleted |-> 0, files_kept |-> 0,
   errors |-> 0]

\* the attributes and the widgets after __init__: single mode shown, the
\* start, pause and abort buttons disabled
NewRemover ==
  [mode_var |-> "single", shown |-> "single",
   primary_folder |-> None, secondary_folder |-> None,
   scanning |-> FALSE, paused |-> FALSE, abort |-> FALSE,
   single_select_btn |-> TRUE, primary_btn |-> TRUE, secondary_btn |-> TRUE,
   start_btn |-> FALSE, pause_btn |-> FALSE, abort_btn |-> FALSE,
   stats |-> NewStats, scan |-> NoScan]

\* a reference folder P with a subfolder and a folder S to be cleaned:
\*   P/r.t = S/r.t = P/d/r.t, S/s.t differs from P/d/s.t, S/.h is hidden
ScDual ==
  LET nP == <<"P">>
      nS == <<"S">>
      n_hidden == <<".", "h">>
  IN [fs |-> [dirs |-> {<<nP>>, <<nP, n_d>>, <<nS>>},
              files |-> (<<nP, r_t>> :> c1) @@ (<<nP, n_d, r_t>> :> c1)
                        @@ (<<nP, n_d, s_t>> :> c2) @@ (<<nS, r_t>> :> c1)
                        @@ (<<nS, s_t>> :> c1) @@ (<<nS, n_hidden>> :> c1)],
      target |-> NotChosen, sources |-> <<>>, empty_dir |-> NotChosen]

\* a folder F with a group of three identical files, two of them with copy
\* numbering, and in F/d a pair of identical files with similar names
ScSingle ==
  LET nF == <<"F">>
      r_1 == <<"r", "(", "1", ")", ".", "t">>
      r_2 == <<"r", "(", "2", ")", ".", "t">>
      photo01 == <<"p", "h", "o", "t", "0", "1", ".", "t">>
      photo02 == <<"p", "h", "o", "t", "0", "2", ".", "t">>
  IN [fs |-> [dirs |-> {<<nF>>, <<nF, n_d>>},
              files |-> (<<nF, r_t>> :> c1) @@ (<<nF, r_1>> :> c1) @@ (<<nF, r_2>> :> c1)
                        @@ (<<nF, n_d, photo01>> :> c2) @@ (<<nF, n_d, photo02>> :> c2)],
      target |-> NotChosen, sources |-> <<>>, empty_dir |-> NotChosen]

\* a target that holds a merge_log.txt written earlier
ScLogged ==
  [fs |-> [dirs |-> {<<nT>>, <<nA>>},
           files |-> (<<nT, merge_log_txt>> :> c3) @@ (<<nA, r_t>> :> c1)],
   target |-> <<nT>>, sources |-> <<<<nA>>>>, empty_dir |-> <<nA>>]

Scenarios ==
  {ScSimilar(c1), ScSimilar(c2), ScVariants(c1), ScVariants(c2), ScBlank, ScNested,
   ScRoot, ScInside, ScUnrelated, ScStaging, ScChain, ScAsym, ScLogged}

\* SIMILARITY_THRESHOLD = 1.00 at import (line 20)
InitialThreshold == 100

InitWith(sc, thr) ==
  /\ fs = sc.fs
  /\ target_var = sc.target
  /\ source_folders = sc.sources
  /\ empty_dir_var = sc.empty_dir
  /\ SIMILARITY_THRESHOLD = thr
  /\ is_running = FALSE
  /\ buttons = [start |-> TRUE, dedup |-> TRUE, empty |-> TRUE]
  /\ merge_request_queue = <<>>
  /\ merge_response_queue = <<>>
  /\ after_polls = 0
  /\ after_done = <<>>
  /\ dlg = <<>>
  /\ thread = IdleThread
  /\ resolve_cache = NoCache
  /\ live = 0
  /\ runs = 0
  /\ faults = 0
  /\ slider_moves = 0
  /\ hist = NoHist
  /\ dr = NewRemover

Init == \E sc \in Scenarios : InitWith(sc, InitialThreshold)

\* the duplicate remover is a program of its own: it starts on its own tree
InitDR == \E sc \in {ScDual, ScSingle} : InitWith(sc, InitialThreshold)

(***************************************************************************)
(* The main thread: buttons, slider, timers, the dialog.                   *)
(***************************************************************************)
\* the operator can reach the main window: no modal dialog holds the grab
MainWindowActive == dlg = <<>>

\* a scheduler that arms no timer
schedule_no_poll(running, polls) == polls

\* _schedule_merge_dialog_poll: the number of pending poll timers after it
_schedule_merge_dialog_poll(running, polls) == IF running THEN polls + 1 ELSE polls

\* the run's history starts afresh with each merge run
StartHist ==
  [NoHist EXCEPT !.phase = "running", !.files0 = fs.files,
                 !.thr0 = SIMILARITY_THRESHOLD, !.req_id = hist.req_id,
                 !.prev_stats = thread.stats]

\* start handlers without the is_running guard
NeverRefused(running) == FALSE

\* the guard of the three start handlers: TRUE when the handler returns early
StartRefused(running) == running

\* _start_merge, the press of start_btn
_start_merge ==
  /\ buttons.start /\ MainWindowActive /\ runs < MaxRuns
  /\ target_var # NotChosen /\ source_folders # <<>>
  /\ ~StartRefused(is_running)
  /\ \A k \in DOMAIN source_folders :
        /\ ~_is_subpath(source_folders[k], target_var)
        /\ ~_is_subpath(target_var, source_folders[k])
  /\ is_running' = TRUE
  /\ buttons' = [buttons EXCEPT !.start = FALSE, !.dedup = FALSE]
  /\ after_polls' = _schedule_merge_dialog_poll(TRUE, after_polls)
  /\ thread' = [IdleThread EXCEPT !.op = "merge", !.pc = "enumerate",
                                  !.target = target_var, !.sources = source_folders]
  /\ live' = live + 1
  /\ runs' = runs + 1
  /\ hist' = StartHist
  /\ UNCHANGED <<dr, fs, target_var, source_folders, empty_dir_var, SIMILARITY_THRESHOLD,
                 merge_request_queue, merge_response_queue, after_done, dlg,
                 resolve_cache, faults, slider_moves>>

\* _start_dedup, the press of dedup_btn
_start_dedup ==
  /\ buttons.dedup /\ MainWindowActive /\ runs < MaxRuns
  /\ target_var # NotChosen /\ IsDir(fs, target_var)
  /\ ~StartRefused(is_running)
  /\ is_running' = TRUE
  /\ buttons' = [buttons EXCEPT !.start = FALSE, !.dedup = FALSE]
  /\ thread' = [IdleThread EXCEPT !.op = "dedup", !.pc = "collect", !.target = target_var]
  /\ live' = live + 1
  /\ runs' = runs + 1
  /\ hist' = [NoHist EXCEPT !.req_id = hist.req_id, !.prev_sweep = hist.sweep,
                            !.sweep_fs0 = fs]
  /\ UNCHANGED <<dr, fs, target_var, source_folders, empty_dir_var, SIMILARITY_THRESHOLD,
                 merge_request_queue, merge_response_queue, after_polls, after_done,
                 dlg, resolve_cache, faults, slider_moves>>

\* _start_remove_empty, the press of empty_btn (enabled during a merge or a
\* dedup run: only is_running keeps it from starting a second worker)
_start_remove_empty ==
  /\ buttons.empty /\ MainWindowActive /\ runs < MaxRuns
  /\ empty_dir_var # NotChosen /\ IsDir(fs, empty_dir_var)
  /\ ~StartRefused(is_running)
  /\ is_running' = TRUE
  /\ buttons' = [start |-> FALSE, dedup |-> FALSE, empty |-> FALSE]
  /\ thread' = [IdleThread EXCEPT !.op = "empty", !.pc = "round", !.target = empty_dir_var]
  /\ live' = live + 1
  /\ runs' = runs + 1
  /\ hist' = [NoHist EXCEPT !.req_id = hist.req_id, !.prev_reclaim = hist.reclaim]
  /\ UNCHANGED <<dr, fs, target_var, source_folders, empty_dir_var, SIMILARITY_THRESHOLD,
                 merge_request_queue, merge_response_queue, after_polls, after_done,
                 dlg, resolve_cache, faults, slider_moves>>

\* _on_threshold_change: the slider is moved to iv
_on_threshold_change ==
  /\ MainWindowActive /\ slider_moves < MaxSliderMoves
  /\ \E iv \in SliderValues \ {SIMILARITY_THRESHOLD} : SIMILARITY_THRESHOLD' = iv
  /\ slider_moves' = slider_moves + 1
  /\ UNCHANGED <<dr, fs, target_var, source_folders, empty_dir_var, is_running, buttons,
                 merge_request_queue, merge_response_queue, after_polls, after_done,
                 dlg, thread, resolve_cache, live, runs, faults, hist>>

\* a poll that reads the head of the queue and leaves it there
PeekOnly(q) == q

\* req = self.merge_request_queue.get_nowait(): the queue after the get
GetNowait(q) == Tail(q)

\* _show_similar_folder_dialog(current_name, found_name) opens: the message
\* shows the ratio computed from the two names of the request (line 379)
ShownDialog(req) ==
  [kind |-> req.kind, current_name |-> req.current_name, found_name |-> req.found_name,
   id |-> req.id, ratio |-> name_similarity(req.current_name, req.found_name)]

\* _poll_merge_dialog: a poll timer fires
_poll_merge_dialog ==
  /\ after_polls > 0
  /\ IF ~is_running
     THEN /\ after_polls' = after_polls - 1
          /\ UNCHANGED <<merge_request_queue, dlg>>
     ELSE IF merge_request_queue = <<>>
     THEN /\ after_polls' = _schedule_merge_dialog_poll(is_running, after_polls - 1)
          /\ UNCHANGED <<merge_request_queue, dlg>>
     ELSE \* the request is taken and the dialog opens; this call returns
          \* (and schedules the next poll) when the dialog is closed
          /\ merge_request_queue' = GetNowait(merge_request_queue)
          /\ dlg' = Append(dlg, ShownDialog(Head(merge_request_queue)))
          /\ after_polls' = after_polls - 1
  /\ UNCHANGED <<dr, fs, target_var, source_folders, empty_dir_var, SIMILARITY_THRESHOLD,
                 is_running, buttons, merge_response_queue, after_done, thread,
                 resolve_cache, live, runs, faults, slider_moves, hist>>

\* merge_response_queue.put(result["value"]) at the end of the dialog
PutResponse(q, req, val) == Append(q, [val |-> val, id |-> req.id])

\* _show_similar_folder_dialog: the operator presses Ja, Nein or Abbruch in
\* the innermost dialog; _poll_merge_dialog then schedules the next poll
_show_similar_folder_dialog ==
  /\ dlg # <<>>
  /\ \E val \in {"use_existing", "skip", "abort"} :
       merge_response_queue' = PutResponse(merge_response_queue, Last(dlg), val)
  /\ dlg' = Front(dlg)
  /\ after_polls' = _schedule_merge_dialog_poll(is_running, after_polls)
  /\ UNCHANGED <<dr, fs, target_var, source_folders, empty_dir_var, SIMILARITY_THRESHOLD,
                 is_running, buttons, merge_request_queue, after_done, thread,
                 resolve_cache, live, runs, faults, slider_moves, hist>>

\* _done of _finish_task or of _finish_remove_empty runs on the main thread
_done ==
  /\ after_done # <<>>
  /\ is_running' = FALSE
  /\ buttons' = IF Head(after_done) = "remove_empty"
                THEN [start |-> TRUE, dedup |-> TRUE, empty |-> TRUE]
                ELSE [buttons EXCEPT !.start = TRUE, !.dedup = TRUE]
  /\ after_done' = Tail(after_done)
  /\ UNCHANGED <<dr, fs, target_var, source_folders, empty_dir_var, SIMILARITY_THRESHOLD,
                 merge_request_queue, merge_response_queue, after_polls, dlg, thread,
                 resolve_cache, live, runs, faults, slider_moves, hist>>

(***************************************************************************)
(* The worker thread of a merge run: _run_merge.                           *)
(***************************************************************************)
MergeAt(pc) == thread.op = "merge" /\ thread.pc = pc

CurrentEntry(th) == th.file_list[th.i]

\* rel_dir = os.path.dirname(rel_path)
RelDir(th) == Front(CurrentEntry(th).rel_path)

\* path_so_far for the segment being resolved
PathSoFar(th) == Join(SubSeq(RelDir(th), 1, th.seg + 1))

Cached(cache, key) == ~cache.none /\ key \in DOMAIN cache.map

\* cache[path_so_far] = current
CachePut(cache, key, dirpath) ==
  IF cache.none THEN cache ELSE [cache EXCEPT !.map = (key :> dirpath) @@ cache.map]

\* the loop reaches file k: the head of _resolve_target_dir (lines 465-471)
\* decides whether segments are to be resolved; past the last file step 6
\* follows
BeginFile(th, cache, k) ==
  IF k > Len(th.file_list)
  THEN [th EXCEPT !.i = k, !.pc = "sweep", !.seg = 0, !.current = <<>>, !.similar_path = <<>>]
  ELSE LET rel_dir == Front(th.file_list[k].rel_path)
           norm == Norm(rel_dir)
       IN IF norm = <<>> \/ norm = <<".">>
          THEN [th EXCEPT !.i = k, !.pc = "place", !.seg = 0, !.current = th.target,
                          !.similar_path = <<>>]
          ELSE IF Cached(cache, norm)
          THEN [th EXCEPT !.i = k, !.pc = "place", !.seg = 0, !.current = cache.map[norm],
                          !.similar_path = <<>>]
          ELSE [th EXCEPT !.i = k, !.pc = "segment", !.seg = 0, !.current = th.target,
                          !.similar_path = <<>>]

\* a segment is settled as dirpath: the loop goes on or the resolve returns
Adopt(th, dirpath) ==
  [th EXCEPT !.current = dirpath, !.seg = th.seg + 1, !.similar_path = <<>>,
             !.pc = IF th.seg + 1 = Len(RelDir(th)) THEN "place" ELSE "segment"]

\* except Exception (lines 720-724): the error is counted, the next file follows
FileError(th, cache) ==
  BeginFile([th EXCEPT !.stats.errors = @ + 1], cache, th.i + 1)

\* step 2: the file list is built and sorted; without files the run ends
RunMergeEnumerate ==
  /\ MergeAt("enumerate")
  /\ \E list \in FileLists(fs, thread.sources, 1) :
       LET file_list == SortByDepth(list, 0)
       IN IF file_list = <<>>
          THEN /\ thread' = IdleThread
               /\ live' = live - 1
               /\ after_done' = Append(after_done, "task")
               /\ hist' = [hist EXCEPT !.phase = "ended"]
               /\ UNCHANGED resolve_cache
          ELSE /\ thread' = BeginFile([thread EXCEPT !.file_list = file_list], EmptyCache, 1)
               /\ resolve_cache' = EmptyCache
               /\ UNCHANGED <<live, after_done, hist>>
  /\ UNCHANGED <<dr, fs, target_var, source_folders, empty_dir_var, SIMILARITY_THRESHOLD,
                 is_running, buttons, merge_request_queue, merge_response_queue,
                 after_polls, dlg, runs, faults, slider_moves>>

\* the record of a source whose entry raised
Failed(src_file) == [src_file |-> src_file, present |-> IsFile(fs, src_file)]

\* lines 511-515: the new directory is created and adopted, or makedirs
\* raises (a file is in the way, or the environment fails it)
CreateSegment(fail, h) ==
  LET new_dir == Append(thread.current, RelDir(thread)[thread.seg + 1])
  IN IF fail \/ ~CanMakedirs(fs, new_dir)
     THEN /\ thread' = FileError(thread, resolve_cache)
          /\ hist' = [h EXCEPT !.outcomes = Append(@, "error"),
                                !.failed = @ \cup {Failed(CurrentEntry(thread).src_file)}]
          /\ UNCHANGED <<fs, resolve_cache>>
     ELSE /\ fs' = Makedirs(fs, new_dir)
          /\ thread' = Adopt(thread, new_dir)
          /\ resolve_cache' = CachePut(resolve_cache, PathSoFar(thread), new_dir)
          /\ hist' = h

\* a threshold captured when the run was started
ThresholdAtStart == hist.thr0

\* the threshold a resolve compares with: the global, read at that moment
ThresholdRead == SIMILARITY_THRESHOLD

\* the history with the decision for one scanned segment added: the name
\* wanted, the names of the subdirectories scanned, the result of the scan,
\* whether a request was put, the threshold at that moment
Decided(path_so_far, m, asked) ==
  [hist EXCEPT !.decided =
     Append(@, [key |-> path_so_far, similar_path |-> m.similar_path,
                ratio |-> m.ratio, asked |-> asked,
                threshold |-> SIMILARITY_THRESHOLD,
                wanted |-> RelDir(thread)[thread.seg + 1],
                subs |-> {Basename(sp) : sp \in Subdirs(fs, thread.current)}])]

\* one pass of the segment loop of _resolve_target_dir (lines 477-515), up
\* to the blocking get
ResolveSegment ==
  /\ MergeAt("segment")
  /\ LET seg == RelDir(thread)[thread.seg + 1]
         path_so_far == PathSoFar(thread)
     IN IF Cached(resolve_cache, path_so_far)
        THEN /\ thread' = Adopt(thread, resolve_cache.map[path_so_far])
             /\ UNCHANGED <<fs, resolve_cache, merge_request_queue, faults, hist>>
        ELSE \E m \in _find_best_matching_folder(fs, thread.current, seg) :
               IF m.exact_path # <<>>
               THEN /\ thread' = Adopt(thread, m.exact_path)
                    /\ resolve_cache' = CachePut(resolve_cache, path_so_far, m.exact_path)
                    /\ hist' = Decided(path_so_far, m, FALSE)
                    /\ UNCHANGED <<fs, merge_request_queue, faults>>
               ELSE IF NeedsDecision(m.similar_path, m.ratio, ThresholdRead)
               THEN /\ merge_request_queue' =
                         Append(merge_request_queue,
                                [kind |-> "similar_folder", current_name |-> seg,
                                 found_name |-> Basename(m.similar_path),
                                 id |-> hist.req_id + 1])
                    /\ thread' = [thread EXCEPT !.pc = "await", !.similar_path = m.similar_path]
                    /\ hist' = [Decided(path_so_far, m, TRUE) EXCEPT !.req_id = @ + 1]
                    /\ UNCHANGED <<fs, resolve_cache, faults>>
               ELSE \E fail \in {FALSE} \cup {b \in {TRUE} : FaultsLeft} :
                      /\ CreateSegment(fail, Decided(path_so_far, m, FALSE))
                      /\ faults' = IF fail THEN faults + 1 ELSE faults
                      /\ UNCHANGED merge_request_queue
  /\ UNCHANGED <<dr, target_var, source_folders, empty_dir_var, SIMILARITY_THRESHOLD,
                 is_running, buttons, merge_response_queue, after_polls, after_done,
                 dlg, live, runs, slider_moves>>

\* response = self.merge_response_queue.get() returns (lines 500-515)
ResolveResponse ==
  /\ MergeAt("await")
  /\ merge_response_queue # <<>>
  /\ merge_response_queue' = Tail(merge_response_queue)
  /\ LET response == Head(merge_response_queue).val
         answered == [hist EXCEPT !.answers =
                        Append(@, [key |-> PathSoFar(thread), val |-> response,
                                   candidate |-> thread.similar_path])]
     IN IF response = "abort"
        THEN \* _MergeAbortedError: the loop is left, step 6 is skipped
             /\ thread' = [thread EXCEPT !.aborted = TRUE, !.pc = "log", !.similar_path = <<>>]
             /\ hist' = answered
             /\ UNCHANGED <<fs, resolve_cache, faults>>
        ELSE IF response = "use_existing"
        THEN /\ thread' = Adopt(thread, thread.similar_path)
             /\ resolve_cache' = CachePut(resolve_cache, PathSoFar(thread), thread.similar_path)
             /\ hist' = answered
             /\ UNCHANGED <<fs, faults>>
        ELSE \E fail \in {FALSE} \cup {b \in {TRUE} : FaultsLeft} :
               /\ CreateSegment(fail, answered)
               /\ faults' = IF fail THEN faults + 1 ELSE faults
  /\ UNCHANGED <<dr, target_var, source_folders, empty_dir_var, SIMILARITY_THRESHOLD,
                 is_running, buttons, merge_request_queue, after_polls, after_done,
                 dlg, live, runs, slider_moves>>

\* the failures the environment can inject while one file is placed
PlaceFaults == {"none"} \cup (IF FaultsLeft THEN {"compare", "move", "remove", "rmdir"} ELSE {})

\* lines 703-708: the file is placed; after a placement the empty source
\* directories are removed upward
PlaceAndReclaim(f, e, dest_dir, fault) ==
  LET r == _merge_single_file(f, e.src_file, dest_dir, fault)
      src_dir == Parent(e.src_file)
  IN IF r.outcome # "error" /\ IsDir(r.fs, src_dir)
     THEN [r EXCEPT !.fs = _remove_empty_dirs_upward(r.fs, src_dir, e.source_root,
                                                     fault = "rmdir")]
     ELSE r

\* stats that leave a file that ended in the except clause uncounted
count_without_errors(stats, outcome) ==
  IF outcome = "moved" THEN [stats EXCEPT !.moved = @ + 1]
  ELSE IF outcome = "deleted_dup" THEN [stats EXCEPT !.deleted_dup = @ + 1]
  ELSE stats

\* stats after one file
Count(stats, outcome) ==
  IF outcome = "moved" THEN [stats EXCEPT !.moved = @ + 1]
  ELSE IF outcome = "deleted_dup" THEN [stats EXCEPT !.deleted_dup = @ + 1]
  ELSE [stats EXCEPT !.errors = @ + 1]

\* steps 5a-5c for the current file, with the except clause of the loop
PlaceFile ==
  /\ MergeAt("place")
  /\ \E fault \in PlaceFaults :
       LET e == CurrentEntry(thread)
           r == PlaceAndReclaim(fs, e, thread.current, fault)
       IN /\ fault # "none" => r # PlaceAndReclaim(fs, e, thread.current, "none")
          /\ fs' = r.fs
          /\ thread' = BeginFile([thread EXCEPT !.stats = Count(@, r.outcome)],
                                 resolve_cache, thread.i + 1)
          /\ faults' = IF fault = "none" THEN faults ELSE faults + 1
          /\ hist' = [hist EXCEPT
                        !.outcomes = Append(@, r.outcome),
                        !.resolved = @ \cup {<<RelDir(thread), thread.current>>},
                        !.failed = IF r.outcome = "error"
                                   THEN @ \cup {Failed(e.src_file)} ELSE @,
                        !.deleted = IF r.outcome = "deleted_dup"
                                    THEN @ \cup {[src_file |-> e.src_file,
                                                  content |-> ContentOf(fs, e.src_file),
                                                  against |-> r.dest,
                                                  against_content |-> ContentOf(fs, r.dest),
                                                  ioerr |-> r.ioerr]}
                                    ELSE @]
  /\ UNCHANGED <<dr, target_var, source_folders, empty_dir_var, SIMILARITY_THRESHOLD,
                 is_running, buttons, merge_request_queue, merge_response_queue,
                 after_polls, after_done, dlg, resolve_cache, live, runs, slider_moves>>

\* step 6 (lines 735-757), reached only when the loop was not left by abort
FinalSweep ==
  /\ MergeAt("sweep")
  /\ \E rmfail \in {FALSE} \cup {b \in {TRUE} : FaultsLeft} :
       LET r == MergeSweep(fs, thread.sources, 1, rmfail)
       IN /\ rmfail => r # MergeSweep(fs, thread.sources, 1, FALSE)
          /\ fs' = r.fs
          /\ faults' = IF rmfail THEN faults + 1 ELSE faults
  /\ thread' = [thread EXCEPT !.pc = "log"]
  /\ hist' = [hist EXCEPT !.swept = TRUE]
  /\ UNCHANGED <<dr, target_var, source_folders, empty_dir_var, SIMILARITY_THRESHOLD,
                 is_running, buttons, merge_request_queue, merge_response_queue,
                 after_polls, after_done, dlg, resolve_cache, live, runs, slider_moves>>

\* lines 780-787: open(log_path, "w") and write; an exception is only logged
WriteLog(f, target, fail) ==
  LET log_path == Append(target, merge_log_txt)
  IN IF fail \/ ~IsDir(f, target) \/ IsDir(f, log_path) THEN f
     ELSE WriteFile(f, log_path, LogText)

\* lines 759-791: summary, log file, the cache is dropped, _finish_task
WriteLogAndFinish ==
  /\ MergeAt("log")
  /\ \E fail \in {FALSE} \cup {b \in {TRUE} : FaultsLeft} :
       /\ fs' = WriteLog(fs, thread.target, fail)
       /\ faults' = IF fail THEN faults + 1 ELSE faults
  /\ resolve_cache' = NoCache
  /\ after_done' = Append(after_done, "task")
  /\ thread' = [thread EXCEPT !.op = "none", !.pc = "idle"]
  /\ live' = live - 1
  /\ hist' = [hist EXCEPT !.phase = "ended"]
  /\ UNCHANGED <<dr, target_var, source_folders, empty_dir_var, SIMILARITY_THRESHOLD,
                 is_running, buttons, merge_request_queue, merge_response_queue,
                 after_polls, dlg, runs, slider_moves>>

(***************************************************************************)
(* The worker thread of a duplicate sweep: _run_dedup.                     *)
(***************************************************************************)
\* a candidate of the sweep: a numbered file and the base file beside it
Candidate(full_path) ==
  [dup_path |-> full_path,
   base_path |-> Append(Parent(full_path), DedupMatch(Basename(full_path))[2])]

\* a sweep that examines only the first numbered file it collected
candidates_first_only(order) ==
  LET Matches(q) == DedupMatch(Basename(q))[1]
      kept == SelectSeq(order, Matches)
  IN [k \in DOMAIN kept \cap {1} |-> Candidate(kept[k])]

\* lines 846-855 keep the walked files whose name matches _DEDUP_RE
CandidatesOf(order) ==
  LET Matches(q) == DedupMatch(Basename(q))[1]
      kept == SelectSeq(order, Matches)
  IN [k \in DOMAIN kept |-> Candidate(kept[k])]

\* a worker that returns without scheduling _done
returns_without_done(kind) ==
  /\ thread' = IdleThread
  /\ live' = live - 1
  /\ after_done' = after_done

\* the worker returns: _finish_task or _finish_remove_empty
Finished(kind) ==
  /\ thread' = IdleThread
  /\ live' = live - 1
  /\ after_done' = Append(after_done, kind)

\* the summary of the sweep that returns with thread state th and tree f
SweepSummary(th, f, faulty) ==
  [ended |-> TRUE, root |-> thread.target, deleted |-> th.deleted, kept |-> th.kept,
   errors |-> th.errors, faulty |-> faulty, fs0 |-> hist.sweep_fs0, fs |-> f]

\* lines 846-861: the candidates are collected; without any the sweep ends
DedupCollect ==
  /\ thread.op = "dedup" /\ thread.pc = "collect"
  /\ \E order \in WalkFiles(fs, thread.target, FALSE) :
       LET candidates == CandidatesOf(order)
       IN IF candidates = <<>>
          THEN /\ Finished("task")
               /\ hist' = [hist EXCEPT !.sweep = SweepSummary(thread, fs, FALSE)]
          ELSE /\ thread' = [thread EXCEPT !.candidates = candidates, !.i = 1, !.pc = "check"]
               /\ UNCHANGED <<live, after_done, hist>>
  /\ UNCHANGED <<dr, fs, target_var, source_folders, empty_dir_var, SIMILARITY_THRESHOLD,
                 is_running, buttons, merge_request_queue, merge_response_queue,
                 after_polls, dlg, resolve_cache, runs, faults, slider_moves>>

\* lines 873-883 for one candidate: [fs, result: "deleted" | "kept" | "error"]
DedupOne(f, c, fault) ==
  IF PathExists(f, c.base_path) /\ FilesIdenticalAt(f, c.dup_path, c.base_path, fault)
  THEN IF fault = "remove" \/ ~IsFile(f, c.dup_path)
       THEN [fs |-> f, result |-> "error"]
       ELSE [fs |-> Remove(f, c.dup_path), result |-> "deleted"]
  ELSE [fs |-> f, result |-> "kept"]

\* one pass of the loop of lines 870-886; after the last candidate the
\* summary is logged and the worker returns
DedupCheck ==
  /\ thread.op = "dedup" /\ thread.pc = "check"
  /\ \E fault \in {"none"} \cup (IF FaultsLeft THEN {"compare", "remove"} ELSE {}) :
       LET c == thread.candidates[thread.i]
           r == DedupOne(fs, c, fault)
           th == [thread EXCEPT !.i = @ + 1,
                                !.deleted = IF r.result = "deleted" THEN @ + 1 ELSE @,
                                !.kept = IF r.result = "kept" THEN @ + 1 ELSE @,
                                !.errors = IF r.result = "error" THEN @ + 1 ELSE @]
       IN /\ fault # "none" => r # DedupOne(fs, c, "none")
          /\ fs' = r.fs
          /\ faults' = IF fault = "none" THEN faults ELSE faults + 1
          /\ IF thread.i = Len(thread.candidates)
             THEN /\ Finished("task")
                  /\ hist' = [hist EXCEPT !.sweep =
                                SweepSummary(th, r.fs, hist.sweep_faulty \/ fault # "none")]
             ELSE /\ thread' = th
                  /\ hist' = [hist EXCEPT !.sweep_faulty = @ \/ fault # "none"]
                  /\ UNCHANGED <<live, after_done>>
  /\ UNCHANGED <<dr, target_var, source_folders, empty_dir_var, SIMILARITY_THRESHOLD,
                 is_running, buttons, merge_request_queue, merge_response_queue,
                 after_polls, dlg, resolve_cache, runs, slider_moves>>

(***************************************************************************)
(* The worker thread of a reclamation: _run_remove_empty.                  *)
(***************************************************************************)
\* one round of the loop of lines 941-988; the round that finds no
\* directory or deletes none is the last, and the worker returns
RemoveEmptyRoundStep ==
  /\ thread.op = "empty" /\ thread.pc = "round"
  /\ \E rmfail \in {FALSE} \cup {b \in {TRUE} : FaultsLeft} :
       LET r == RemoveEmptyRound(fs, thread.target, MaxDepth(fs), rmfail)
       IN /\ rmfail => r # RemoveEmptyRound(fs, thread.target, MaxDepth(fs), FALSE)
          /\ fs' = r.fs
          /\ faults' = IF rmfail THEN faults + 1 ELSE faults
          /\ IF r.removed = 0
             THEN /\ Finished("remove_empty")
                  /\ hist' = [hist EXCEPT !.reclaim =
                                [ended |-> TRUE, root |-> thread.target,
                                 deleted |-> thread.deleted,
                                 errors |-> thread.errors + r.errors, fs |-> r.fs]]
             ELSE /\ thread' = [thread EXCEPT !.round_nr = @ + 1,
                                              !.deleted = @ + r.removed,
                                              !.errors = @ + r.errors]
                  /\ UNCHANGED <<live, after_done, hist>>
  /\ UNCHANGED <<dr, target_var, source_folders, empty_dir_var, SIMILARITY_THRESHOLD,
                 is_running, buttons, merge_request_queue, merge_response_queue,
                 after_polls, dlg, resolve_cache, runs, slider_moves>>

(***************************************************************************)
(* The specification.                                                      *)
(***************************************************************************)
MainThread ==
  \/ _start_merge
  \/ _start_dedup
  \/ _start_remove_empty
  \/ _on_threshold_change
  \/ _poll_merge_dialog
  \/ _show_similar_folder_dialog
  \/ _done

Worker ==
  \/ RunMergeEnumerate
  \/ ResolveSegment
  \/ ResolveResponse
  \/ PlaceFile
  \/ FinalSweep
  \/ WriteLogAndFinish
  \/ DedupCollect
  \/ DedupCheck
  \/ RemoveEmptyRoundStep

Next == MainThread \/ Worker

Spec == Init /\ [][Next]_vars

\* the Tk main loop runs every due poll timer, the operator answers an
\* open dialog, and the worker blocked in get() runs once an item is there
FairSpec ==
  /\ Spec
  /\ WF_vars(_poll_merge_dialog)
  /\ WF_vars(_show_similar_folder_dialog)
  /\ WF_vars(ResolveResponse)

\* the worker thread can take a step: it has been started, has not returned
\* and does not wait in get() on an empty response queue
WorkerReady == thread.op # "none" /\ (MergeAt("await") => merge_response_queue # <<>>)

\* in addition the operating system schedules a worker thread that can run
\* (weak fairness of Worker, its enabling condition written out), and the
\* Tk main loop runs every after(0, _done) callback
LiveSpec ==
  /\ FairSpec
  /\ WF_vars(_done)
  /\ ([]<>~WorkerReady \/ []<><<Worker>>_vars)

(***************************************************************************)
(* duplicate_remover.py, primary/secondary mode.  The handlers run on the  *)
(* Tk main loop; a handler bound to a button runs only while the button is *)
(* shown and enabled.  The scan runs on its own thread, one file a step.   *)
(***************************************************************************)
\* everything the duplicate remover never touches
merge_vars ==
  <<target_var, source_folders, empty_dir_var, SIMILARITY_THRESHOLD, is_running,
    buttons, merge_request_queue, merge_response_queue, after_polls, after_done,
    dlg, thread, resolve_cache, live, runs, slider_moves, hist>>

\* check_dual_ready: the start button is enabled when both folders are set
check_dual_ready(r) ==
  [r EXCEPT !.start_btn = (r.primary_folder # None /\ r.secondary_folder # None)]

\* update_ui: the scan is over (the thread returns right after the call),
\* the buttons of the selected mode come back
update_ui(r) ==
  LET r1 == [r EXCEPT !.scanning = FALSE, !.pause_btn = FALSE, !.abort_btn = FALSE,
                      !.scan = [NoScan EXCEPT !.deleted = r.scan.deleted,
                                              !.kept = r.scan.kept]]
  IN IF r.mode_var = "single" THEN [r1 EXCEPT !.single_select_btn = TRUE]
     ELSE check_dual_ready([r1 EXCEPT !.primary_btn = TRUE, !.secondary_btn = TRUE])

\* the files of a walk whose name does not start with '.'
Visible(w) == SelectSeq(w, LAMBDA p : Basename(p)[1] # ".")

RECURSIVE GroupByName(_)
\* primary_files: the walked paths grouped by file name, the names in the
\* order of their first occurrence (a dict keeps insertion order)
GroupByName(w) ==
  IF w = <<>> THEN <<>>
  ELSE LET n == Basename(w[1])
       IN SelectSeq(w, LAMBDA p : Basename(p) = n)
            \o GroupByName(SelectSeq(w, LAMBDA p : Basename(p) # n))

\* get_file_hash: the SHA-256 digest of the content (distinct contents have
\* distinct digests), None when the file cannot be read
get_file_hash(f, p, fault) ==
  IF fault \/ ~IsFile(f, p) THEN NoHash ELSE <<"sha256", f.files[p]>>

\* a radio button is clicked: the variable changes, then the handler runs
on_mode_change ==
  \E m \in {"single", "dual"} :
    /\ dr' = IF dr.scanning THEN [dr EXCEPT !.mode_var = m]
             ELSE [dr EXCEPT !.mode_var = m, !.shown = m, !.primary_folder = None,
                             !.secondary_folder = None, !.start_btn = FALSE]
    /\ UNCHANGED <<fs, faults, merge_vars>>

\* "Select Primary Folder": the operator picks an existing directory
select_primary_folder ==
  /\ dr.shown = "dual" /\ dr.primary_btn
  /\ \E folder \in fs.dirs :
       dr' = check_dual_ready([dr EXCEPT !.primary_folder = folder])
  /\ UNCHANGED <<fs, faults, merge_vars>>

\* "Select Secondary Folder": a folder equal to, inside or around the
\* primary folder selected so far is refused
select_secondary_folder ==
  /\ dr.shown = "dual" /\ dr.secondary_btn
  /\ \E folder \in fs.dirs :
       LET refused ==
             /\ dr.primary_folder # None
             /\ \/ folder = dr.primary_folder
                \/ IsPrefix(dr.primary_folder, folder)
                \/ IsPrefix(folder, dr.primary_folder)
       IN dr' = IF refused THEN dr
                ELSE check_dual_ready([dr EXCEPT !.secondary_folder = folder])
  /\ UNCHANGED <<fs, faults, merge_vars>>

\* "Start Scan"
start_dual_scan ==
  /\ dr.shown = "dual" /\ dr.start_btn
  /\ ~dr.scanning
  /\ dr.primary_folder # None /\ dr.secondary_folder # None
  /\ PathExists(fs, dr.primary_folder) /\ PathExists(fs, dr.secondary_folder)
  /\ dr' = [dr EXCEPT !.stats = NewStats, !.scanning = TRUE, !.paused = FALSE,
                      !.abort = FALSE, !.primary_btn = FALSE, !.secondary_btn = FALSE,
                      !.start_btn = FALSE, !.pause_btn = TRUE, !.abort_btn = TRUE,
                      !.scan = [NoScan EXCEPT !.pc = "collect"]]
  /\ UNCHANGED <<fs, faults, merge_vars>>

\* "Pause" / "Resume"
pause_scan ==
  /\ dr.pause_btn
  /\ dr' = [dr EXCEPT !.paused = ~dr.paused]
  /\ UNCHANGED <<fs, faults, merge_vars>>

\* "Abort"
abort_scan ==
  /\ dr.abort_btn
  /\ dr' = [dr EXCEPT !.abort = TRUE]
  /\ UNCHANGED <<fs, faults, merge_vars>>

\* scan_dual_folders, phase 1: the files below the primary folder
DualCollect ==
  /\ dr.scan.pc = "collect"
  /\ IF dr.abort THEN dr' = update_ui(dr)
     ELSE \E w \in WalkFiles(fs, dr.primary_folder, FALSE) :
            LET pf == GroupByName(Visible(w))
            IN dr' = [dr EXCEPT !.stats.primary_files = Len(pf),
                                !.scan.primary_files = pf,
                                !.scan.pc = IF pf = <<>> THEN "list" ELSE "hash"]
  /\ UNCHANGED <<fs, faults, merge_vars>>

\* phase 2, one file: its digest is entered under its file name
DualHashPrimary ==
  /\ dr.scan.pc = "hash"
  /\ ~(dr.paused /\ ~dr.abort)
  /\ IF dr.abort THEN dr' = update_ui(dr) /\ UNCHANGED faults
     ELSE \E fault \in BOOLEAN :
            LET k == dr.scan.idx + 1
                filepath == dr.scan.primary_files[k]
                file_hash == get_file_hash(fs, filepath, fault)
            IN /\ fault => faults < MaxFaults
               /\ faults' = IF fault THEN faults + 1 ELSE faults
               /\ dr' = [dr EXCEPT
                    !.scan.idx = k,
                    !.scan.primary_hashes =
                       IF file_hash # NoHash THEN @ \cup {<<Basename(filepath), file_hash>>}
                       ELSE @,
                    !.stats.errors = IF file_hash = NoHash THEN @ + 1 ELSE @,
                    !.scan.pc = IF k = Len(dr.scan.primary_files) THEN "list" ELSE "hash"]
  /\ UNCHANGED <<fs, merge_vars>>

\* phase 3 and the walk of phase 4: the files below the secondary folder
DualListSecondary ==
  /\ dr.scan.pc = "list"
  /\ IF dr.abort THEN dr' = update_ui(dr)
     ELSE \E w \in WalkFiles(fs, dr.secondary_folder, FALSE) :
            LET files == Visible(w)
                r1 == [dr EXCEPT !.stats.secondary_files = Len(files),
                                 !.scan.files = files, !.scan.idx = 0,
                                 !.scan.pc = "check"]
            IN dr' = IF files = <<>> THEN update_ui(r1) ELSE r1
  /\ UNCHANGED <<fs, faults, merge_vars>>

\* phase 4, the head of the loop over the secondary files (lines 505-509):
\* the thread waits while the scan is paused and leaves on abort
DualCheckSecondary ==
  /\ dr.scan.pc = "check"
  /\ ~(dr.paused /\ ~dr.abort)
  /\ dr' = IF dr.abort THEN update_ui(dr) ELSE [dr EXCEPT !.scan.pc = "compare"]
  /\ UNCHANGED <<fs, faults, merge_vars>>

\* phase 4, one file (lines 511-545): removed when a primary file of the
\* same name has the same digest, kept otherwise
DualCompareSecondary ==
  /\ dr.scan.pc = "compare"
  /\ \E fault \in {"none", "hash", "remove"} :
       LET k == dr.scan.idx + 1
           secondary_path == dr.scan.files[k]
           file == Basename(secondary_path)
           named == \E e \in dr.scan.primary_hashes : e[1] = file
           secondary_hash == get_file_hash(fs, secondary_path, fault = "hash")
           hit == /\ named /\ secondary_hash # NoHash
                  /\ <<file, secondary_hash>> \in dr.scan.primary_hashes
           removed == hit /\ fault # "remove"
           r1 == [dr EXCEPT
               !.scan.idx = k, !.scan.pc = "check",
               !.scan.deleted = IF removed THEN @ \cup {secondary_path} ELSE @,
               !.stats.files_deleted = IF removed THEN @ + 1 ELSE @,
               !.stats.files_kept =
                  IF ~named \/ (secondary_hash # NoHash /\ ~hit) THEN @ + 1 ELSE @,
               !.stats.errors =
                  IF (named /\ secondary_hash = NoHash) \/ (hit /\ ~removed)
                  THEN @ + 1 ELSE @]
       IN /\ fault = "hash" => named
          /\ fault = "remove" => hit
          /\ fault # "none" => faults < MaxFaults
          /\ faults' = IF fault # "none" THEN faults + 1 ELSE faults
          /\ fs' = IF removed THEN Remove(fs, secondary_path) ELSE fs
          /\ dr' = IF k = Len(dr.scan.files) THEN update_ui(r1) ELSE r1
  /\ UNCHANGED merge_vars

(***************************************************************************)
(* duplicate_remover.py, single-folder mode.                               *)
(***************************************************************************)
\* has_copy_numbering: the stem ends in "(digits)"
has_copy_numbering(filename) ==
  LET stem == splitext(Basename(filename))[1]
      opens == {k \in DOMAIN stem : stem[k] = "("}
  IN /\ stem # <<>> /\ Last(stem) = ")" /\ opens # {}
     /\ LET o == Max(opens)
        IN o + 1 < Len(stem) /\ \A k \in (o + 1)..(Len(stem) - 1) : stem[k] \in Digit

\* filenames_similar: different names, same extension, stems of six or
\* more characters that agree up to their last two or their last three
filenames_similar(name1, name2) ==
  LET stem1 == splitext(name1)[1]
      stem2 == splitext(name2)[1]
      Cut(stem, n) == SubSeq(stem, 1, Len(stem) - n)
  IN /\ name1 # name2
     /\ splitext(name1)[2] = splitext(name2)[2]
     /\ Len(stem1) >= 6 /\ Len(stem2) >= 6
     /\ \E suffix_len \in {2, 3} : Cut(stem1, suffix_len) = Cut(stem2, suffix_len)

\* a group whose every member is examined, the first one included
split_checking_all(files) == [keep_file |-> files[1], to_check |-> files]

\* lines 638-647: the member that is kept and the members to be checked
SplitGroup(files) ==
  LET files_no_numbering == SelectSeq(files, LAMBDA f : ~has_copy_numbering(f))
      files_with_numbering == SelectSeq(files, LAMBDA f : has_copy_numbering(f))
  IN IF files_no_numbering # <<>>
     THEN [keep_file |-> files_no_numbering[1],
           to_check |-> Tail(files_no_numbering) \o files_with_numbering]
     ELSE [keep_file |-> files[1], to_check |-> Tail(files)]

\* hash_map[file_hash].append(filepath): a dict keeps insertion order
HashMapAdd(hash_map, file_hash, filepath) ==
  IF \E k \in DOMAIN hash_map : hash_map[k].hash = file_hash
  THEN [k \in DOMAIN hash_map |->
          IF hash_map[k].hash = file_hash
          THEN [hash_map[k] EXCEPT !.files = Append(@, filepath)] ELSE hash_map[k]]
  ELSE Append(hash_map, [hash |-> file_hash, files |-> <<filepath>>])

\* "Select Folder": the operator picks an existing directory, the scan starts
select_single_folder ==
  /\ dr.shown = "single" /\ dr.single_select_btn
  /\ ~dr.scanning
  /\ \E folder \in fs.dirs :
       dr' = [dr EXCEPT !.stats = NewStats, !.scanning = TRUE, !.paused = FALSE,
                        !.abort = FALSE, !.single_select_btn = FALSE,
                        !.pause_btn = TRUE, !.abort_btn = TRUE,
                        !.scan = [NoScan EXCEPT !.pc = "s_collect", !.keep_file = folder]]
  /\ UNCHANGED <<fs, faults, merge_vars>>

\* scan_folder, phase 1: the files below the folder
SingleCollect ==
  /\ dr.scan.pc = "s_collect"
  /\ IF dr.abort THEN dr' = update_ui(dr)
     ELSE \E w \in WalkFiles(fs, dr.scan.keep_file, FALSE) :
            LET all_files == Visible(w)
                r1 == [dr EXCEPT !.scan.files = all_files, !.scan.keep_file = <<>>,
                                 !.scan.pc = "s_hash"]
            IN dr' = IF all_files = <<>> THEN update_ui(r1) ELSE r1
  /\ UNCHANGED <<fs, faults, merge_vars>>

\* phase 2, one file; after the last one the groups of two or more files
\* are the duplicate groups, and without any the scan is over
SingleHash ==
  /\ dr.scan.pc = "s_hash"
  /\ ~(dr.paused /\ ~dr.abort)
  /\ IF dr.abort THEN dr' = update_ui(dr) /\ UNCHANGED faults
     ELSE \E fault \in BOOLEAN :
            LET k == dr.scan.idx + 1
                filepath == dr.scan.files[k]
                file_hash == get_file_hash(fs, filepath, fault)
                hash_map == IF file_hash # NoHash
                            THEN HashMapAdd(dr.scan.hash_map, file_hash, filepath)
                            ELSE dr.scan.hash_map
                groups == SelectSeq(hash_map, LAMBDA e : Len(e.files) > 1)
                r1 == [dr EXCEPT !.scan.idx = k, !.scan.hash_map = hash_map,
                                 !.stats.errors = IF file_hash = NoHash THEN @ + 1 ELSE @]
                r2 == [r1 EXCEPT !.scan.groups = [n \in DOMAIN groups |-> groups[n].files],
                                 !.scan.hash_map = <<>>, !.scan.pc = "group"]
            IN /\ fault => faults < MaxFaults
               /\ faults' = IF fault THEN faults + 1 ELSE faults
               /\ dr' = IF k < Len(dr.scan.files) THEN r1
                        ELSE IF groups = <<>> THEN update_ui(r1) ELSE r2
  /\ UNCHANGED <<fs, merge_vars>>

\* phase 3, the head of the loop over the groups (lines 626-650): the
\* thread leaves on abort, waits while the scan is paused, then chooses the
\* member to keep; after the last group the scan is over
SingleBeginGroup ==
  /\ dr.scan.pc = "group"
  /\ IF dr.scan.g = Len(dr.scan.groups) \/ dr.abort THEN dr' = update_ui(dr)
     ELSE /\ ~dr.paused
          /\ LET sp == SplitGroup(dr.scan.groups[dr.scan.g + 1])
             IN dr' = [dr EXCEPT !.scan.g = @ + 1, !.scan.keep_file = sp.keep_file,
                                 !.scan.to_check = sp.to_check, !.scan.j = 0,
                                 !.scan.kept = @ \cup {sp.keep_file},
                                 !.stats.files_kept = @ + 1,
                                 !.scan.pc = "dups"]
  /\ UNCHANGED <<fs, faults, merge_vars>>

\* phase 3, one member of to_check (lines 652-684): the loop is left on
\* abort; a member with a name similar to the kept one is removed only if
\* the operator answers "delete", any other member is removed
SingleHandleDuplicate ==
  /\ dr.scan.pc = "dups"
  /\ IF dr.abort
     THEN dr' = [dr EXCEPT !.scan.pc = "group"] /\ UNCHANGED <<fs, faults>>
     ELSE \E decision \in {"delete", "keep", "cancel"}, rmfail \in BOOLEAN :
            LET k == dr.scan.j + 1
                dup_file == dr.scan.to_check[k]
                similar == filenames_similar(Basename(dr.scan.keep_file), Basename(dup_file))
                wanted == ~similar \/ decision = "delete"
                removed == wanted /\ ~rmfail /\ IsFile(fs, dup_file)
            IN /\ ~similar => decision = "delete"
               /\ rmfail => wanted /\ faults < MaxFaults
               /\ faults' = IF rmfail THEN faults + 1 ELSE faults
               /\ fs' = IF removed THEN Remove(fs, dup_file) ELSE fs
               /\ dr' = [dr EXCEPT
                    !.scan.j = k,
                    !.scan.deleted = IF removed THEN @ \cup {dup_file} ELSE @,
                    !.stats.files_deleted = IF removed THEN @ + 1 ELSE @,
                    !.stats.errors = IF wanted /\ ~removed THEN @ + 1 ELSE @,
                    !.stats.files_kept = IF similar /\ decision = "keep" THEN @ + 1 ELSE @,
                    !.scan.pc = IF k = Len(dr.scan.to_check) THEN "group" ELSE "dups"]
  /\ UNCHANGED merge_vars

NextDR ==
  \/ on_mode_change
  \/ select_primary_folder
  \/ select_secondary_folder
  \/ start_dual_scan
  \/ pause_scan
  \/ abort_scan
  \/ DualCollect
  \/ DualHashPrimary
  \/ DualListSecondary
  \/ DualCheckSecondary
  \/ DualCompareSecondary
  \/ select_single_folder
  \/ SingleCollect
  \/ SingleHash
  \/ SingleBeginGroup
  \/ SingleHandleDuplicate

SpecDR == InitDR /\ [][NextDR]_vars

(***************************************************************************)
(* Observations used by the properties.                                    *)
(***************************************************************************)
\* the merge run has returned and no other operation was started since
MergeEnded == hist.phase = "ended"

\* the files below one of the sources when the run was started
SourceFiles0 ==
  {p \in DOMAIN hist.files0 :
     \E k \in DOMAIN thread.sources : IsPrefix(thread.sources[k], p)}

\* the decisions of the run for which a DecisionRequest was put
Asked ==
  LET WasAsked(d) == d.asked
  IN SelectSeq(hist.decided, WasAsked)

\* requests and responses in flight: queued, shown in a dialog, or answered
\* and not yet taken by the worker
InFlight == Len(merge_request_queue) + Len(dlg) + Len(merge_response_queue)

\* the operator has answered abort and the run has not ended yet
AbortAnswered ==
  \/ \E k \in DOMAIN merge_response_queue : merge_response_queue[k].val = "abort"
  \/ thread.op = "merge" /\ thread.aborted

(***************************************************************************)
(* Properties of the merge run.                                            *)
(***************************************************************************)
\* C1: a source file is deleted as a duplicate only after the comparison
\* with an existing destination file (the same-named file or a numbered
\* variant) ran without error and found the two contents equal; a
\* comparison that fails or finds a difference never leads to a deletion.
C1_DeleteOnlyAfterPositiveComparison ==
  \A e \in hist.deleted :
     /\ ~e.ioerr
     /\ e.against # e.src_file
     /\ e.content = e.against_content

\* a source was deleted as the duplicate of a numbered variant
C1_Witness ==
  \E e \in hist.deleted : Basename(e.against) # Basename(e.src_file)

\* C2: after a merge run every file content that was below a source when
\* the run was started still exists, at its source path or in a file of
\* the target tree.
C2_NoContentDestroyed ==
  MergeEnded =>
    \A p \in SourceFiles0 :
       \E q \in DOMAIN fs.files :
          /\ fs.files[q] = hist.files0[p]
          /\ q = p \/ IsPrefix(thread.target, q)

\* C3: after an abort the files handled before it stay moved or deleted,
\* the aborting file and the files after it are at their source paths with
\* their contents, and the final sweep has not run.
C3_AbortLeavesRestInPlace ==
  thread.aborted =>
    /\ \A k \in 1..(thread.i - 1) :
          hist.outcomes[k] \in {"moved", "deleted_dup"}
            => ~IsFile(fs, thread.file_list[k].src_file)
    /\ \A k \in thread.i..Len(thread.file_list) :
          LET src == thread.file_list[k].src_file
          IN IsFile(fs, src) /\ fs.files[src] = hist.files0[src]
    /\ ~hist.swept

\* C4: from the abort answer until the run ends no step changes the file
\* system.
C4_NoMutationAfterAbort == [][AbortAnswered => fs' = fs]_vars

\* C5: the queues hold at most one item each, at most one request is in
\* flight, one is in flight exactly while the worker is blocked on the
\* response, and request and response carry the number of the request the
\* worker is blocked on.
C5_OneRequestOneResponse ==
  /\ Len(merge_request_queue) <= 1
  /\ Len(merge_response_queue) <= 1
  /\ InFlight <= 1
  /\ InFlight = 1 <=> MergeAt("await")
  /\ \A k \in DOMAIN merge_request_queue : merge_request_queue[k].id = hist.req_id
  /\ \A k \in DOMAIN dlg : dlg[k].id = hist.req_id
  /\ \A k \in DOMAIN merge_response_queue : merge_response_queue[k].id = hist.req_id

\* the second request of a history has been answered and the response
\* waits for the worker
C5_Witness == Len(merge_response_queue) = 1 /\ hist.req_id >= 2

\* C6: a queued request always has a poll timer pending in a running
\* operation, and a worker blocked on a response is eventually released.
C6_DecisionEventuallyDelivered ==
  /\ [](merge_request_queue # <<>> => is_running /\ after_polls >= 1)
  /\ (MergeAt("await") ~> ~MergeAt("await"))

\* the worker is blocked on a decision in a run started after an earlier
\* operation has finished
C6_Witness == MergeAt("await") /\ runs >= 2 /\ merge_request_queue # <<>>

\* C7: within one run no DecisionRequest is put for a path for which, or
\* below which, a request was put before.
C7_NoSecondRequest ==
  \A i, j \in DOMAIN Asked :
     i < j => LET first == Asked[i].key
                  second == Asked[j].key
              IN ~(second = first \/ IsPrefix(Append(second, "/"), first))

\* the relative directories of the run are placed functionally: one
\* target directory for each
ResolvedOnce ==
  \A a, b \in hist.resolved : a[1] = b[1] => a[2] = b[2]

\* a step inside a run keeps every entry of the cache
CacheEntriesKept ==
  (hist.phase = "running" /\ hist'.phase = "running" /\ ~resolve_cache.none)
    => \A key \in DOMAIN resolve_cache.map :
          /\ key \in DOMAIN resolve_cache'.map
          /\ resolve_cache'.map[key] = resolve_cache.map[key]

\* the enumeration step of a run leaves no entry of an earlier run
CacheFresh == MergeAt("enumerate") => resolve_cache'.map = <<>>

\* C8: entries of the cache are never changed or removed inside a run,
\* every relative directory is resolved to one target directory for the
\* whole run, a run starts with an empty cache and leaves none behind.
C8_Memoization ==
  /\ [][CacheEntriesKept /\ CacheFresh]_vars
  /\ [](ResolvedOnce /\ (thread.op # "merge" => resolve_cache.none))

\* C9: at most one worker is alive, a start handler that finds the flag
\* set starts none, and the flag is clear only when no worker is alive.
C9_OneOperationAtATime ==
  /\ live <= 1
  /\ live = 1 <=> thread.op # "none"
  /\ ~is_running => live = 0

\* a worker is alive while the operator can press the still enabled
\* button of the reclamation
C9_Witness ==
  /\ is_running /\ live = 1 /\ thread.op \in {"merge", "dedup"}
  /\ buttons.empty /\ MainWindowActive /\ runs < MaxRuns
  /\ IsDir(fs, empty_dir_var)

ErrorCount ==
  Cardinality({k \in DOMAIN hist.outcomes : hist.outcomes[k] = "error"})

\* C11: every entry that raised is counted as one error, the loop went on
\* to the end of the list unless the operator aborted, and at the end of
\* the run every source that raised is at its path with its content.
C11_FailedSourcePreserved ==
  MergeEnded =>
    /\ thread.stats.errors = ErrorCount
    /\ ~thread.aborted => Len(hist.outcomes) = Len(thread.file_list)
    /\ \A e \in hist.failed :
          /\ IsFile(fs, e.src_file)
          /\ fs.files[e.src_file] = hist.files0[e.src_file]

\* the same for the sources that were at their path when their entry raised
FailedWhilePresentPreserved ==
  MergeEnded =>
    \A e \in hist.failed :
       e.present => IsFile(fs, e.src_file) /\ fs.files[e.src_file] = hist.files0[e.src_file]

\* the target lies in or at a source, or a source in or at the target
Overlap(target, sources) ==
  \E k \in DOMAIN sources : IsPrefix(sources[k], target) \/ IsPrefix(target, sources[k])

\* C12: with a target in or at a source, or a source in or at the target,
\* no step starts a merge worker, sets the running flag or changes the
\* file system on behalf of a merge.
C12_OverlapRejected ==
  [][(Overlap(target_var, source_folders) /\ ~is_running)
       => ~(thread'.op = "merge" /\ is_running')]_vars

\* a step that handles the current file without an injected failure
PlaceStep == MergeAt("place") /\ thread'.i = thread.i + 1 /\ faults' = faults

\* the same-named destination of the current file
DestFile == Append(thread.current, Basename(CurrentEntry(thread).src_file))

\* the current file is moved to dst by this step
MovedTo(dst) ==
  LET src == CurrentEntry(thread).src_file
  IN /\ ~IsFile(fs', src)
     /\ IsFile(fs', dst) /\ fs'.files[dst] = fs.files[src]
     /\ thread'.stats = [thread.stats EXCEPT !.moved = @ + 1]

\* the current file is deleted by this step, no file of the target changes
DroppedHere ==
  LET src == CurrentEntry(thread).src_file
  IN /\ ~IsFile(fs', src)
     /\ \A q \in DOMAIN fs.files :
           IsPrefix(thread.target, q) /\ q # src
             => IsFile(fs', q) /\ fs'.files[q] = fs.files[q]
     /\ \A q \in DOMAIN fs'.files : IsPrefix(thread.target, q) => IsFile(fs, q)
     /\ thread'.stats = [thread.stats EXCEPT !.deleted_dup = @ + 1]

\* case A and case B of the placement
PlaceMovesOrDrops ==
  LET src == CurrentEntry(thread).src_file
  IN (PlaceStep /\ IsFile(fs, src) /\ src # DestFile) =>
       /\ (~PathExists(fs, DestFile) /\ CanMakedirs(fs, thread.current))
            => MovedTo(DestFile)
       /\ (IsFile(fs, DestFile) /\ fs.files[DestFile] = fs.files[src])
            => DroppedHere

\* two entries of the list with the same relative path and the same bytes
SameFileTwice ==
  \E i, j \in DOMAIN thread.file_list :
     /\ i < j
     /\ thread.file_list[i].rel_path = thread.file_list[j].rel_path
     /\ hist.files0[thread.file_list[i].src_file] = hist.files0[thread.file_list[j].src_file]

\* a run without failure, error, abort or question into a target that
\* held no file has ended
CleanRunEnded ==
  /\ MergeEnded /\ thread.file_list # <<>> /\ faults = 0 /\ ~thread.aborted
  /\ ErrorCount = 0 /\ Asked = <<>>
  /\ \A p \in DOMAIN hist.files0 : ~IsPrefix(thread.target, p)

\* after a clean run the same relative file with the same bytes from two
\* sources is one file in the target: one moved, the other deleted
OneCopyLeft ==
  CleanRunEnded =>
    \A i, j \in DOMAIN thread.file_list :
       LET a == thread.file_list[i]
           b == thread.file_list[j]
       IN (i < j /\ a.rel_path = b.rel_path
             /\ hist.files0[a.src_file] = hist.files0[b.src_file])
          => /\ Cardinality({q \in DOMAIN fs.files :
                               /\ IsPrefix(thread.target, q)
                               /\ Basename(q) = Basename(a.src_file)
                               /\ fs.files[q] = hist.files0[a.src_file]}) = 1
             /\ hist.outcomes[i] = "moved" /\ hist.outcomes[j] = "deleted_dup"
             /\ ~IsFile(fs, a.src_file) /\ ~IsFile(fs, b.src_file)

\* C13: a file whose name is free in the resolved directory is moved there
\* and counted as moved; a file whose same-named destination has the same
\* bytes is deleted, counted as duplicate and the destination is left as it
\* is (both when the step meets no I/O failure); so the same file in two
\* sources ends as one copy, one moved and one deleted.
C13_MoveOrDrop == [][PlaceMovesOrDrops]_vars /\ []OneCopyLeft

\* a clean run with the same file in two sources has ended
C13_Witness ==
  CleanRunEnded /\ SameFileTwice /\ thread.stats.moved >= 1 /\ thread.stats.deleted_dup = 1

\* the k-th numbered variant of the current file in the resolved directory
Variant(k) ==
  Append(thread.current, NumberedName(Basename(CurrentEntry(thread).src_file), k))

\* the probe stops at k: the variant is free or has the bytes of the source
StopsAt(k) ==
  \/ ~PathExists(fs, Variant(k))
  \/ IsFile(fs, Variant(k)) /\ fs.files[Variant(k)] = fs.files[CurrentEntry(thread).src_file]

\* the first counter at which the probe stops; one of the first n + 1
\* variants is free when the directory has n entries
FirstStop ==
  Min({k \in 1..(Cardinality(Listdir(fs, thread.current)) + 1) : StopsAt(k)})

\* case C of the placement
PlaceProbes ==
  LET src == CurrentEntry(thread).src_file
  IN (PlaceStep /\ IsFile(fs, src) /\ src # DestFile
        /\ IsFile(fs, DestFile) /\ fs.files[DestFile] # fs.files[src])
     => /\ IF PathExists(fs, Variant(FirstStop))
           THEN DroppedHere
           ELSE MovedTo(Variant(FirstStop))
        /\ \A q \in DOMAIN fs.files :
              IsPrefix(thread.target, q) /\ q # src
                => IsFile(fs', q) /\ fs'.files[q] = fs.files[q]
        /\ merge_request_queue' = merge_request_queue

\* C14: with a same-named destination of different bytes the file goes to
\* the first numbered variant that is free, or is deleted when the first
\* variant that stops the probe has its bytes; the destination and the
\* existing variants stay as they are and no request is put.
C14_NumberedProbe == [][PlaceProbes]_vars

\* a source was moved to its second numbered variant
C14_Witness ==
  /\ hist.phase # "none"
  /\ \E q \in DOMAIN fs.files \ DOMAIN hist.files0 :
        \E k \in DOMAIN thread.file_list :
           /\ Basename(q) = NumberedName(Basename(thread.file_list[k].src_file), 2)
           /\ fs.files[q] = hist.files0[thread.file_list[k].src_file]

\* the scan of decision d found a subdirectory with exactly the wanted name
ExactFound(d) == d.wanted \in d.subs

\* the best ratio of the subdirectories scanned for decision d
BestRatio(d) ==
  LET rs == {name_similarity(sub, d.wanted) : sub \in d.subs}
  IN IF rs = {} THEN Zero ELSE CHOOSE r \in rs : \A o \in rs : RatioGE(r, o)

\* C15 as stated: a request is put exactly when no subdirectory has the
\* wanted name and the best-scoring subdirectory has a ratio at or above
\* the threshold and below 1, for every threshold, 0 included.
C15_RequestIffBestReachesThreshold ==
  \A k \in DOMAIN hist.decided :
     LET d == hist.decided[k]
     IN d.asked <=> /\ ~ExactFound(d) /\ d.subs # {}
                    /\ RatioGE(BestRatio(d), Percent(d.threshold))
                    /\ RatioGT(One, BestRatio(d))

\* C15: a request is put exactly when no subdirectory has the wanted name
\* and the best-scoring subdirectory has a ratio above 0, at or above the
\* threshold and below 1; a scan that finds the wanted name adopts it.
C15_RequestIffPositiveBestReachesThreshold ==
  \A k \in DOMAIN hist.decided :
     LET d == hist.decided[k]
     IN /\ d.asked <=> /\ ~ExactFound(d)
                        /\ RatioGT(BestRatio(d), Zero)
                        /\ RatioGE(BestRatio(d), Percent(d.threshold))
                        /\ RatioGT(One, BestRatio(d))
        /\ ExactFound(d) => Basename(d.similar_path) = d.wanted

\* at threshold 0 a scan found only subdirectories of ratio 0 and no
\* request was put
C15_Witness ==
  \E k \in DOMAIN hist.decided :
     LET d == hist.decided[k]
     IN /\ d.threshold = 0 /\ d.subs # {} /\ ~ExactFound(d)
        /\ ~RatioGT(BestRatio(d), Zero) /\ ~d.asked

\* a step in which the worker takes a response
ResponseStep == MergeAt("await") /\ thread'.pc # "await"

\* the directory a skip creates for the segment the worker asked about
NewSibling == Append(thread.current, RelDir(thread)[thread.seg + 1])

\* use_existing adopts the candidate and creates nothing; skip creates the
\* sibling with the wanted name and adopts it
AnswerDecides ==
  ResponseStep =>
    LET val == Head(merge_response_queue).val
    IN /\ val = "use_existing"
            => thread'.current = thread.similar_path /\ fs' = fs
       /\ (val = "skip" /\ faults' = faults /\ CanMakedirs(fs, NewSibling))
            => /\ IsDir(fs', NewSibling) /\ thread'.current = NewSibling
               /\ NewSibling # thread.similar_path

\* the answers taken so far for the relative directory of the current file
AnswersHere ==
  LET Here(a) == a.key = Join(RelDir(thread))
  IN SelectSeq(hist.answers, Here)

\* a file of a source directory whose last answer was skip is not placed
\* in the similar candidate
PlacedBesideCandidate ==
  (MergeAt("place") /\ thread'.i = thread.i + 1 /\ AnswersHere # <<>>)
    => LET a == Last(AnswersHere)
       IN a.val = "skip" => thread.current # a.candidate

\* C16: use_existing adopts the candidate directory and creates none; skip
\* creates the sibling named as the wanted segment, and the files of that
\* source directory are placed there, never in the similar candidate.
C16_AnswerDecidesDirectory == [][AnswerDecides /\ PlacedBesideCandidate]_vars

\* a step taken while the worker of a merge run is alive
MergeWorkerStep == thread.op = "merge"

\* p lies strictly below a directory named '_Quelle' of a source tree
BelowStaging(p) ==
  \E k \in 1..(Len(p) - 1) :
    /\ p[k] = _Quelle
    /\ \E j \in DOMAIN thread.sources : IsPrefix(thread.sources[j], SubSeq(p, 1, k))

\* d is a directory named '_Quelle' of a source tree
IsStaging(d) ==
  /\ d # <<>> /\ Basename(d) = _Quelle
  /\ \E j \in DOMAIN thread.sources : IsPrefix(thread.sources[j], d)

\* the files below a staging directory stay, with their content
StagingFilesStay ==
  \A p \in DOMAIN fs.files :
    BelowStaging(p) => IsFile(fs', p) /\ fs'.files[p] = fs.files[p]

\* the staging directories and the directories below them stay
StagingDirsStay ==
  \A d \in fs.dirs : (IsStaging(d) \/ BelowStaging(d)) => IsDir(fs', d)

\* C17: a merge run moves or deletes no file below a directory named
\* '_Quelle' of a source tree and removes neither that directory nor a
\* directory below it.
C17_StagingUntouchedByMerge ==
  [][MergeWorkerStep => (StagingFilesStay /\ StagingDirsStay)]_vars

\* a step taken while the worker of a reclamation is alive
ReclaimWorkerStep == thread.op = "empty"

StrictlyBelow(d, root) == IsPrefix(root, d) /\ Len(d) > Len(root)

\* C18: the standalone reclamation deletes no directory named '_Quelle'
\* below the chosen root, also when it is empty or holds only ignorable
\* entries.
C18_ReclaimKeepsStaging ==
  [][ReclaimWorkerStep =>
       \A d \in fs.dirs :
         (StrictlyBelow(d, thread.target) /\ Basename(d) = _Quelle) => IsDir(fs', d)]_vars

\* the root of a reclamation survives the step
ReclaimRootStays == IsDir(fs, thread.target) => IsDir(fs', thread.target)

\* the source roots of a merge run survive the step
SourceRootsStay ==
  \A j \in DOMAIN thread.sources :
    IsDir(fs, thread.sources[j]) => IsDir(fs', thread.sources[j])

\* C19: the standalone reclamation never deletes its root, and a merge run
\* (upward reclamation and final sweep) never deletes a source root.
C19_RootNeverRemoved ==
  [][(ReclaimWorkerStep => ReclaimRootStays) /\ (MergeWorkerStep => SourceRootsStay)]_vars

\* d holds nothing, or nothing but ignorable entries
OnlyIgnorableEntries(f, d) ==
  \A e \in f.dirs \cup DOMAIN f.files :
    (e # <<>> /\ Parent(e) = d) => Basename(e) \in _IGNORABLE_FILES

\* the reclamation has returned and counted no error
ReclaimedClean(rec) == rec.ended /\ rec.errors = 0

\* after a clean return no directory strictly below the root is left with
\* only ignorable entries
NothingLeftToReclaim ==
  ReclaimedClean(hist.reclaim) =>
    \A d \in hist.reclaim.fs.dirs :
      StrictlyBelow(d, hist.reclaim.root) => ~OnlyIgnorableEntries(hist.reclaim.fs, d)

\* the second of two reclamations of the same unchanged tree deletes nothing
SecondCallDeletesNone ==
  (/\ ReclaimedClean(hist.prev_reclaim) /\ hist.reclaim.ended
   /\ hist.reclaim.root = hist.prev_reclaim.root
   /\ hist.reclaim.errors = 0)
    => hist.reclaim.deleted = 0 /\ hist.reclaim.fs = hist.prev_reclaim.fs

\* C20: when the reclamation returns without errors no directory strictly
\* below the root contains only ignorable entries, and a second call on the
\* unchanged tree deletes 0 directories.
C20_ReclaimIdempotent == NothingLeftToReclaim /\ SecondCallDeletesNone

\* a reclamation that deleted directories has been followed by a second one
\* on the tree it left, and both returned without errors
C20_Witness ==
  /\ ReclaimedClean(hist.prev_reclaim) /\ hist.prev_reclaim.deleted > 0
  /\ ReclaimedClean(hist.reclaim)
  /\ hist.reclaim.root = hist.prev_reclaim.root

\* a step in which the worker of a duplicate sweep examines a candidate
ExamineStep == thread.op = "dedup" /\ thread.pc = "check" /\ thread' # thread

\* the numbered file under examination and the base file beside it
Examined == thread.candidates[thread.i]

\* the base file exists and has the bytes of the numbered file
BaseIdenticalNow ==
  /\ IsFile(fs, Examined.dup_path) /\ IsFile(fs, Examined.base_path)
  /\ fs.files[Examined.dup_path] = fs.files[Examined.base_path]

\* the examined file is a numbered one and its base is its sibling without
\* the number
ExaminedIsNumbered ==
  LET n == Basename(Examined.dup_path)
  IN /\ \E k \in 1..Len(n) : \E j \in (k + 2)..Len(n) :
          /\ n[k] = "_" /\ n[j] = "." /\ k > 1 /\ j < Len(n)
          /\ \A x \in (k + 1)..(j - 1) : n[x] \in Digit
          /\ \A x \in (j + 1)..Len(n) : n[x] # "."
          /\ Basename(Examined.base_path) = SubSeq(n, 1, k - 1) \o SubSeq(n, j, Len(n))
     /\ Parent(Examined.base_path) = Parent(Examined.dup_path)

\* the examination deletes the numbered file exactly when its base is
\* identical (the environment failing nothing), and touches nothing else
ExamineDeletesIffIdentical ==
  ExamineStep =>
    /\ ExaminedIsNumbered
    /\ ~IsFile(fs', Examined.dup_path) => BaseIdenticalNow
    /\ (BaseIdenticalNow /\ faults' = faults) => ~IsFile(fs', Examined.dup_path)
    /\ fs'.dirs = fs.dirs
    /\ DOMAIN fs'.files \subseteq DOMAIN fs.files
    /\ \A p \in DOMAIN fs.files \ {Examined.dup_path} :
         IsFile(fs', p) /\ fs'.files[p] = fs.files[p]

\* every other step of a sweep leaves the tree as it is
SweepStep == thread.op = "dedup"

\* C21: the duplicate sweep deletes a numbered file if and only if, when it
\* is examined, its base file exists beside it with the same bytes; files
\* that are not numbered are never deleted and nothing is renamed.
C21_SweepDeletesIffIdentical ==
  [][ExamineDeletesIffIdentical /\ ((SweepStep /\ ~ExamineStep) => fs' = fs)]_vars

\* a sweep has returned that deleted a numbered file and kept another one
C21_Witness ==
  hist.sweep.ended /\ hist.sweep.deleted > 0 /\ hist.sweep.kept > 0 /\ ~hist.sweep.faulty

\* a sweep returned with the environment failing nothing
SweptClean(sw) == sw.ended /\ ~sw.faulty /\ sw.errors = 0

\* C22: a second sweep directly after a first one on the unchanged tree
\* deletes nothing, for chained names and every traversal order.
C22_SweepIdempotent ==
  (/\ SweptClean(hist.prev_sweep) /\ hist.sweep.ended
   /\ hist.sweep.root = hist.prev_sweep.root
   /\ hist.sweep.fs0 = hist.prev_sweep.fs)
    => hist.sweep.deleted = 0 /\ hist.sweep.fs = hist.prev_sweep.fs

\* a first sweep over chained names deleted files and a second one followed
C22_Witness ==
  /\ SweptClean(hist.prev_sweep) /\ hist.prev_sweep.deleted > 0
  /\ IsFile(hist.prev_sweep.fs0, <<nT, r_1_1_t>>)
  /\ IsFile(hist.prev_sweep.fs, <<nT, r_1_1_t>>)
  /\ SweptClean(hist.sweep) /\ hist.sweep.fs0 = hist.prev_sweep.fs

\* the comparator on the files of the tree, the environment raising an I/O
\* error (fault = "compare") or not (fault = "none")
Identical(a, b, fault) == FilesIdenticalAt(fs, a, b, fault)

SymmetricReflexive(fault) ==
  \A a, b \in DOMAIN fs.files :
    /\ Identical(a, b, fault) = Identical(b, a, fault)
    /\ Identical(a, a, fault)

\* C23 as stated: for all files a and b, identical(a,b) = identical(b,a)
\* and identical(a,a) is true.
C23_SymmetricReflexive == \A fault \in {"none", "compare"} : SymmetricReflexive(fault)

\* C23 amended: the same for files that are sized and read without an I/O
\* error, and identical(a,b) is true exactly for equal bytes.
C23_SymmetricReflexiveWhenReadable ==
  /\ SymmetricReflexive("none")
  /\ \A a, b \in DOMAIN fs.files : Identical(a, b, "none") = (fs.files[a] = fs.files[b])

\* the sweep has compared and deleted, and the tree still holds two files
\* of equal bytes and two of which one is the beginning of the other
C23_Witness ==
  /\ hist.sweep.ended /\ hist.sweep.deleted > 0
  /\ \E a, b \in DOMAIN fs.files : a # b /\ fs.files[a] = fs.files[b]
  /\ \E a, b \in DOMAIN fs.files :
       Len(fs.files[a]) < Len(fs.files[b])
       /\ SubSeq(fs.files[b], 1, Len(fs.files[a])) = fs.files[a]

\* the comparator answers false whenever sizing or reading raises: under a
\* failing environment, and for a path that is no regular file
FalseOnIoError ==
  /\ \A a, b \in DOMAIN fs.files : ~Identical(a, b, "compare")
  /\ \A a \in DOMAIN fs.files : \A d \in fs.dirs :
       ~Identical(a, d, "none") /\ ~Identical(d, a, "none")

\* the placement of the current file with its comparisons failing
PlacedComparisonFailing ==
  _merge_single_file(fs, CurrentEntry(thread).src_file, thread.current, "compare")

\* in place a failed comparison deletes nothing: the source is moved or
\* stays, and no file of the tree is lost or changed
PlaceKeepsBothOnIoError ==
  MergeAt("place") =>
    LET src == CurrentEntry(thread).src_file
        r == PlacedComparisonFailing
    IN /\ r.outcome # "deleted_dup"
       /\ \A p \in DOMAIN fs.files \ {src} : IsFile(r.fs, p) /\ r.fs.files[p] = fs.files[p]
       /\ IsFile(fs, src) =>
            \/ IsFile(r.fs, src) /\ r.fs.files[src] = fs.files[src]
            \/ r.outcome = "moved" /\ ~IsFile(fs, r.dest)
               /\ IsFile(r.fs, r.dest) /\ r.fs.files[r.dest] = fs.files[src]

\* in the sweep a failed comparison keeps the numbered file
SweepKeepsBothOnIoError ==
  (thread.op = "dedup" /\ thread.pc = "check") =>
    LET r == DedupOne(fs, Examined, "compare")
    IN r.fs = fs /\ r.result = "kept"

\* C24: an I/O error while sizing or reading makes the comparator answer
\* false, so that in place and in the duplicate sweep a comparison that
\* failed keeps both files and never deletes.
C24_IoErrorKeepsBoth ==
  FalseOnIoError /\ PlaceKeepsBothOnIoError /\ SweepKeepsBothOnIoError

\* a sweep in which a comparison failed has returned and has left a
\* numbered file beside its identical base
C24_Witness ==
  /\ hist.sweep.ended /\ hist.sweep.faulty /\ hist.sweep.errors = 0
  /\ hist.sweep.kept > 0
  /\ IsFile(fs, <<nT, n_e, s_t>>) /\ IsFile(fs, <<nT, n_e, s_1_t>>)
  /\ fs.files[<<nT, n_e, s_t>>] = fs.files[<<nT, n_e, s_1_t>>]

\* the names the resolver compares: those of the directories of the tree,
\* and the empty name
NamesOfTree == {Basename(d) : d \in fs.dirs \ {<<>>}} \cup {<<>>}

\* the fraction r is a number of [0, 1]
InUnitInterval(r) == r[2] > 0 /\ 0 <= r[1] /\ r[1] <= r[2]

IsOne(r) == r[2] > 0 /\ r[1] = r[2]

IsZero(r) == r[2] > 0 /\ r[1] = 0

\* C25: name_similarity returns a value of [0,1], 1.0 for a name with
\* itself and for two empty names, 0.0 for a non-empty and an empty name.
C25_RatioRangeAndEnds ==
  \A x, y \in NamesOfTree :
    /\ InUnitInterval(name_similarity(x, y))
    /\ IsOne(name_similarity(x, x))
    /\ x # <<>> => IsZero(name_similarity(x, <<>>)) /\ IsZero(name_similarity(<<>>, x))

\* the resolver has computed a ratio strictly between 0 and 1 for two
\* names of the tree
C25_Witness ==
  \E k \in DOMAIN hist.decided :
    /\ hist.decided[k].ratio[1] > 0
    /\ hist.decided[k].ratio[1] < hist.decided[k].ratio[2]
    /\ hist.decided[k].wanted \in NamesOfTree

\* a step that starts the worker of a merge run
MergeStarts == thread.op # "merge" /\ thread'.op = "merge"

AllZero(stats) == stats.moved = 0 /\ stats.deleted_dup = 0 /\ stats.errors = 0

NoneDecreases(old, new) ==
  new.moved >= old.moved /\ new.deleted_dup >= old.deleted_dup /\ new.errors >= old.errors

\* a step of the main thread that starts no run
MainThreadStep ==
  _on_threshold_change \/ _poll_merge_dialog \/ _show_similar_folder_dialog \/ _done

\* C26: the counters moved, deleted_as_duplicate and errors are zero at the
\* start of every run, never decrease during a run, and are written only
\* by the worker.
C26_CountersOfOneRun ==
  [][/\ MergeStarts => AllZero(thread'.stats)
     /\ (MergeWorkerStep /\ thread'.op = "merge") => NoneDecreases(thread.stats, thread'.stats)
     /\ MainThreadStep => thread'.stats = thread.stats]_vars

\* a second merge run counts files after a first one ended with counts
C26_Witness ==
  /\ ~AllZero(hist.prev_stats)
  /\ thread.op = "merge" /\ ~AllZero(thread.stats)

\* the per-file loop is at an entry of the list: its directory is being
\* resolved, asked about, or the file is about to be placed
AtListEntry == MergeAt("segment") \/ MergeAt("await") \/ MergeAt("place")

\* no file is on the list twice
ListedOnce ==
  \A i, j \in DOMAIN thread.file_list :
    i # j => thread.file_list[i].src_file # thread.file_list[j].src_file

\* C28: when the per-file loop reaches a file of the list, the file still
\* exists at its enumerated path, and no file is on the list twice; for
\* every set of sources, nested ones and ones with OS metadata files.
C28_ListedFileStillThere ==
  AtListEntry => (IsFile(fs, CurrentEntry(thread).src_file) /\ ListedOnce)

\* a step that places the current file without error
PlacedStep ==
  /\ MergeAt("place") /\ thread'.i = thread.i + 1
  /\ thread'.stats.errors = thread.stats.errors

\* a step in which the placement of the current file ends in the except
\* clause
NotPlacedStep ==
  /\ MergeAt("place") /\ thread'.i = thread.i + 1
  /\ thread'.stats.errors # thread.stats.errors

\* the directories the step removed
RemovedDirs == fs.dirs \ fs'.dirs

\* the directories from the placed file's parent up to, and without, the
\* source root of its entry
UpwardChain ==
  LET e == CurrentEntry(thread)
      top == Parent(e.src_file)
  IN {SubSeq(top, 1, n) : n \in (Len(e.source_root) + 1)..Len(top)}

\* when it was checked, d held nothing but ignorable files: its entries
\* before the step were ignorable files, the placed file, or the directory
\* removed just before
EntriesWereIgnorable(d) ==
  \A x \in fs.dirs \cup DOMAIN fs.files :
    (x # <<>> /\ Parent(x) = d) =>
      \/ x \in DOMAIN fs.files /\ Basename(x) \in _IGNORABLE_FILES
      \/ x = CurrentEntry(thread).src_file
      \/ x \in RemovedDirs

\* d was eligible after the placement: below it the chain is gone, and it
\* is no staging directory
WasEligible(d) ==
  /\ Basename(d) # _Quelle
  /\ EntriesWereIgnorable(d)
  /\ \A c \in UpwardChain : Len(c) > Len(d) => c \in RemovedDirs

\* C29: the upward reclamation after a placed file removes a contiguous
\* chain of directories from the file's parent upward, each holding only
\* ignorable entries when checked, and stops at the first directory with
\* another entry, at the source root, at a '_Quelle' directory or at the
\* first removal that fails.
C29_UpwardChain ==
  [][/\ PlacedStep =>
          /\ RemovedDirs \subseteq UpwardChain
          /\ \A d \in RemovedDirs : WasEligible(d)
          /\ faults' = faults => \A d \in UpwardChain : WasEligible(d) => d \in RemovedDirs
     /\ NotPlacedStep => RemovedDirs = {}]_vars

\* a placed file's two parent directories were removed upward and the walk
\* stopped at the source root, before the final sweep
C29_Witness ==
  /\ thread.op = "merge" /\ ~hist.swept /\ thread.pc # "log"
  /\ <<nA, n_d, n_e, r_t>> \in DOMAIN hist.files0
  /\ ~IsDir(fs, <<nA, n_d, n_e>>) /\ ~IsDir(fs, <<nA, n_d>>) /\ IsDir(fs, <<nA>>)

\* .DS_Store, Thumbs.db, desktop.ini
IsMetadataName(n) == n = DS_Store \/ n = Thumbs_db \/ n = desktop_ini

\* a step of one of the three reclamation paths: the upward walk after a
\* placed file, the final sweep of a merge, a round of the standalone
\* reclamation
ReclamationStep ==
  \/ MergeAt("place") /\ thread'.i = thread.i + 1
  \/ MergeAt("sweep") /\ thread'.pc # "sweep"
  \/ thread.op = "empty" /\ thread' # thread

\* the file the step placed, if it is a placement
PlacedHere ==
  IF MergeAt("place") THEN {CurrentEntry(thread).src_file} ELSE {}

\* the files the reclamation of the step deleted
ReclaimedFiles == (DOMAIN fs.files \ DOMAIN fs'.files) \ PlacedHere

\* when d was checked its entries were metadata files only: before the step
\* it held such files, the file placed in this step, and directories the
\* step removed before it
CheckedMetadataOnly(d) ==
  \A x \in fs.dirs \cup DOMAIN fs.files :
    (x # <<>> /\ Parent(x) = d) =>
      \/ x \in DOMAIN fs.files /\ IsMetadataName(Basename(x))
      \/ x \in PlacedHere
      \/ x \in RemovedDirs

\* C30: in the upward walk, the final sweep and the standalone reclamation
\* a directory is removed only if every entry is an ignorable metadata file
\* when it is checked, and the only files deleted are ignorable files of a
\* directory that is being removed.
C30_OnlyMetadataReclaimed ==
  [][ReclamationStep =>
       /\ \A d \in RemovedDirs : CheckedMetadataOnly(d)
       /\ \A p \in ReclaimedFiles :
            /\ IsMetadataName(Basename(p))
            /\ CheckedMetadataOnly(Parent(p))
            /\ Parent(p) \in RemovedDirs \/ faults' # faults]_vars

\* a standalone reclamation has purged a metadata file and removed its
\* directory and the parent that held nothing else
C30_Witness ==
  /\ hist.reclaim.ended /\ hist.reclaim.deleted >= 2
  /\ ~IsDir(fs, <<nA, n_e, _Quelle>>) /\ ~IsDir(fs, <<nA, n_e>>)
  /\ IsDir(fs, <<nA, _Quelle>>)

(***************************************************************************)
(* C27.  Primary/secondary mode of the duplicate remover: whatever the     *)
(* order in which the primary and the secondary folder were selected       *)
(* before the scan was started, no step of a dual scan deletes a file that *)
(* lies under the primary folder.                                          *)
(***************************************************************************)
\* the files a step deletes
DeletedByStep == DOMAIN fs.files \ DOMAIN fs'.files

LiesUnder(folder, p) == folder # None /\ IsPrefix(folder, p)

C27_PrimaryFolderProtected ==
  [][\A p \in DeletedByStep : ~LiesUnder(dr.primary_folder, p)]_vars

(***************************************************************************)
(* C31.  The repeated rounds terminate.  A round of the standalone         *)
(* reclamation that removes no directory is the last one, every other      *)
(* round leaves fewer directories than it found (a removal that fails is   *)
(* not counted, so it cannot ask for another round), and a started         *)
(* reclamation returns.  The final sweep of a merge returns too, and       *)
(* without a failing removal it leaves nothing that a further round over   *)
(* the sources would remove.                                               *)
(***************************************************************************)
ReclaimRound == thread.op = "empty" /\ thread.pc = "round"

ReclaimReturns == thread'.op = "none" /\ hist'.reclaim.ended

\* the worker runs one round
ReclaimRoundStep == ReclaimRound /\ thread' # thread

RoundEndsOrShrinks ==
  ReclaimRoundStep =>
    IF fs'.dirs = fs.dirs THEN ReclaimReturns
    ELSE /\ ~ReclaimReturns /\ ReclaimRound'
         /\ Cardinality(fs'.dirs) < Cardinality(fs.dirs)
         /\ thread'.deleted - thread.deleted = Cardinality(fs.dirs) - Cardinality(fs'.dirs)

SweepReachesFixpoint ==
  (MergeAt("sweep") /\ thread'.pc = "log" /\ faults' = faults) =>
     MergeSweep(fs', thread.sources, 1, FALSE).removed = 0

C31_RoundsTerminate ==
  /\ [][RoundEndsOrShrinks /\ SweepReachesFixpoint]_vars
  /\ (ReclaimRound ~> hist.reclaim.ended)
  /\ (MergeAt("sweep") ~> ~MergeAt("sweep"))

\* a reclamation has returned that removed two directories or more before
\* the round that removed none
C31_Witness ==
  /\ hist.reclaim.ended /\ hist.reclaim.deleted >= 2
  /\ \E n \in 1..Len(after_done) : after_done[n] = "remove_empty"

(***************************************************************************)
(* C32.  While the threshold is the default 1.00 (the slider has not been  *)
(* moved), a merge run puts no DecisionRequest, and every relative         *)
(* directory is resolved to the target directory of the same names: a      *)
(* segment is mapped onto an existing directory only if it has exactly the *)
(* wanted name, otherwise a directory of the wanted name is created.       *)
(***************************************************************************)
AtDefaultThreshold == slider_moves = 0 /\ SIMILARITY_THRESHOLD = InitialThreshold

NoRequestAtDefault ==
  AtDefaultThreshold => (merge_request_queue = <<>> /\ hist.req_id = 0 /\ dlg = <<>>)

SegmentsKeepTheirNames ==
  (AtDefaultThreshold /\ thread.op = "merge") =>
     \A pr \in hist.resolved : pr[2] = thread.target \o pr[1]

C32_DefaultThresholdExactOnly == NoRequestAtDefault /\ SegmentsKeepTheirNames

(***************************************************************************)
(* C33.  The ratio an open dialog presents is the ratio the resolver       *)
(* compared against the threshold when it put the request for that         *)
(* segment and that candidate.                                             *)
(***************************************************************************)
\* the scans of the current run that led to a request for these two names
ScansAskedFor(current_name, found_name) ==
  {m \in Range(hist.decided) :
      m.asked /\ m.wanted = current_name /\ Basename(m.similar_path) = found_name}

C33_PresentedRatioIsComparedRatio ==
  \A k \in DOMAIN dlg :
     \A m \in ScansAskedFor(dlg[k].current_name, dlg[k].found_name) :
        dlg[k].ratio = m.ratio

(***************************************************************************)
(* C34: in single-folder mode the member chosen as keep_file of a group of *)
(* files with the same digest is never deleted: every file a scan has      *)
(* chosen to keep is still on disk, and no step of the scan removes the    *)
(* keep_file of the group at hand, whatever the dialogs return and         *)
(* whenever abort is pressed.                                              *)
(***************************************************************************)
KeptFilesExist == \A p \in dr.scan.kept : IsFile(fs, p)

KeepFileNotAmongChecked ==
  dr.scan.pc = "dups" =>
    \A k \in DOMAIN dr.scan.to_check : dr.scan.to_check[k] # dr.scan.keep_file

C34_KeepFileNeverDeleted == KeptFilesExist /\ KeepFileNotAmongChecked

\* a scan of a single folder that was aborted after it had deleted a
\* member of a group whose keep_file is on disk
C34_Witness ==
  /\ dr.mode_var = "single" /\ dr.abort
  /\ dr.scan.kept # {} /\ dr.scan.deleted # {}
  /\ \E p \in dr.scan.kept, q \in dr.scan.deleted :
       IsFile(fs, p) /\ ~IsFile(fs, q) /\ Front(p) = Front(q)

(***************************************************************************)
(* C39: while a scan is paused, from the moment the pause flag is set      *)
(* until resume or abort, no file is deleted, in dual mode and in          *)
(* single-folder mode.                                                     *)
(***************************************************************************)
ScanPaused == dr.scanning /\ dr.paused /\ ~dr.abort

C39_PausedScanDeletesNothing == [][ScanPaused => DeletedByStep = {}]_vars

\* the same, for single-folder mode alone
C39_PausedSingleScanDeletesNothing ==
  [][(ScanPaused /\ dr.scan.pc = "dups") => DeletedByStep = {}]_vars

\* the same, for dual mode alone
C39_PausedDualScanDeletesNothing ==
  [][(ScanPaused /\ dr.scan.pc = "compare") => DeletedByStep = {}]_vars

(***************************************************************************)
(* C35: a merge run never deletes, renames or overwrites a file that was   *)
(* in the target tree when the run was started, and removes no directory   *)
(* of the target tree: it only adds to the target.                         *)
(***************************************************************************)
\* the files below the target when the run was started
TargetFiles0 == {p \in DOMAIN hist.files0 : IsPrefix(thread.target, p)}

TargetFilesUntouched ==
  hist.phase # "none" =>
    \A p \in TargetFiles0 : IsFile(fs, p) /\ fs.files[p] = hist.files0[p]

TargetDirsStay ==
  thread.op = "merge" =>
    \A d \in fs.dirs : IsPrefix(thread.target, d) => d \in fs'.dirs

\* no source of the run lies in the target tree
SourcesOutsideTarget ==
  \A k \in DOMAIN thread.sources : ~IsPrefix(thread.target, thread.sources[k])

C35_TargetOnlyGrows == [](TargetFilesUntouched) /\ [][TargetDirsStay]_vars

\* the same for the runs whose sources lie outside the target: the log
\* file of an earlier run is still overwritten
C35_DisjointTargetOnlyGrows ==
  /\ [](SourcesOutsideTarget => TargetFilesUntouched)
  /\ [][SourcesOutsideTarget => TargetDirsStay]_vars

\* what holds: with the sources outside the target, every file of the
\* target other than merge_log.txt is untouched and no directory is removed
C35_DisjointTargetGrowsButLog ==
  /\ [](SourcesOutsideTarget /\ hist.phase # "none" =>
          \A p \in TargetFiles0 \ {Append(thread.target, merge_log_txt)} :
             IsFile(fs, p) /\ fs.files[p] = hist.files0[p])
  /\ [][SourcesOutsideTarget => TargetDirsStay]_vars

(***************************************************************************)
(* C36: in a merge run each file of the list increments exactly one of     *)
(* the counters moved, deleted_dup, errors, once: after the i-th file the  *)
(* three add up to i, at the end of a completed run to the number of       *)
(* enumerated files, and at the end of an aborted run to the number of     *)
(* files handled before the aborting file.                                 *)
(***************************************************************************)
Sum(stats) == stats.moved + stats.deleted_dup + stats.errors

\* the loop is at its thread.i-th file: thread.i - 1 files have been handled
CountersAddUp ==
  /\ (thread.op = "merge" /\ thread.pc # "enumerate") => Sum(thread.stats) = thread.i - 1
  /\ MergeEnded =>
       Sum(thread.stats) = IF thread.aborted THEN thread.i - 1 ELSE Len(thread.file_list)

OneCounterPerFile ==
  (thread.op = "merge" /\ thread'.op = "merge" /\ thread'.i = thread.i + 1
     /\ thread.pc # "enumerate") =>
    \E c \in {"moved", "deleted_dup", "errors"} :
       thread'.stats = [thread.stats EXCEPT ![c] = @ + 1]

C36_CountersAccountForEveryFile == [](CountersAddUp) /\ [][OneCounterPerFile]_vars

\* a run that was aborted after a file had ended in an error and another
\* had been moved or deleted
C36_Witness ==
  /\ MergeEnded /\ thread.aborted
  /\ thread.stats.errors >= 1 /\ thread.stats.moved + thread.stats.deleted_dup >= 1

(***************************************************************************)
(* C38: the files that remain after a duplicate sweep do not depend on     *)
(* the order in which the traversal yields the numbered candidates: the    *)
(* tree a fault-free sweep has left is the tree every other traversal      *)
(* order of the tree it started on leaves.                                 *)
(***************************************************************************)
RECURSIVE SweepFrom(_, _, _)
\* the loop of lines 870-886 from the k-th candidate on, without faults
SweepFrom(f, candidates, k) ==
  IF k > Len(candidates) THEN f
  ELSE SweepFrom(DedupOne(f, candidates[k], "none").fs, candidates, k + 1)

\* the trees the sweep of root can leave of f, one per traversal order
SweepOutcomes(f, root) ==
  {SweepFrom(f, CandidatesOf(order), 1) : order \in WalkFiles(f, root, FALSE)}

FaultFreeSweepEnded == hist.sweep.ended /\ ~hist.sweep.faulty

C38_SweepOrderIndependent ==
  FaultFreeSweepEnded =>
    \A f \in SweepOutcomes(hist.sweep.fs0, hist.sweep.root) :
       DOMAIN f.files = DOMAIN hist.sweep.fs.files

\* the tree of a sweep with chained numbered names (r.t, r_1.t, r_1_1.t)
ChainedNames(f) ==
  \E p \in DOMAIN f.files :
     LET m == DedupMatch(Basename(p))
     IN m[1] /\ DedupMatch(m[2])[1]

\* the same for the trees without a numbered file whose base name is
\* itself numbered
C38_UnchainedSweepOrderIndependent ==
  (FaultFreeSweepEnded /\ ~ChainedNames(hist.sweep.fs0)) =>
    \A f \in SweepOutcomes(hist.sweep.fs0, hist.sweep.root) :
       DOMAIN f.files = DOMAIN hist.sweep.fs.files

(***************************************************************************)
(* C37: every started operation (a merge run, a duplicate sweep, a         *)
(* reclamation) eventually ends, given that open dialogs are answered: its *)
(* worker returns and the run flag is released; when the flag is released  *)
(* no worker is left, no request, response or dialog is pending, and the   *)
(* three start buttons are enabled, so that a new operation can start;     *)
(* a worker that has returned has left a _done callback pending.           *)
(***************************************************************************)
\* the state in which the three start handlers pass their guards
ReadyForNewOperation ==
  /\ ~is_running /\ thread.op = "none" /\ live = 0
  /\ buttons.start /\ buttons.dedup /\ buttons.empty
  /\ MainWindowActive
  /\ merge_request_queue = <<>> /\ merge_response_queue = <<>>

RunFlagReleased == is_running /\ ~is_running'

OperationStarts == ~is_running /\ is_running'

C37_OperationsEnd ==
  /\ \A op \in {"merge", "dedup", "empty"} : (thread.op = op) ~> (thread.op = "none")
  /\ is_running ~> ~is_running
  /\ [][RunFlagReleased => ReadyForNewOperation']_vars
  /\ [][OperationStarts => ReadyForNewOperation]_vars
  /\ [](~is_running => thread.op = "none")
  /\ []((is_running /\ thread.op = "none") => after_done # <<>>)

\* the second operation has ended after a first one of another kind: an
\* aborted merge run and a reclamation, or a sweep
C37_Witness ==
  /\ ReadyForNewOperation /\ runs >= 2 /\ after_done = <<>>
  /\ hist.reclaim.ended \/ hist.sweep.ended \/ hist.phase = "ended"
====
